---------------------------- MODULE Spec2Model ----------------------------
(***************************************************************************)
(* Alert lifecycle engine of grafana-alerts-backend.                       *)
(*                                                                         *)
(* The model follows the TypeScript sources:                               *)
(*   MongoDBAlertStore, EnhancedAlertingService  (src/unnamed/part_003)    *)
(*   SlackNotifier, AlertingService, MonitoringSystem                      *)
(*                                       (src/src/models/alert-summary.ts) *)
(*   RequestMetricsService        (src/src/services/request-metrics.ts)    *)
(*   AlertSchema                              (src/unnamed/part_001)       *)
(*                                                                         *)
(* Node runs one event loop: the code between two awaits is one atomic     *)
(* step, and each await is a point where other invocations interleave.     *)
(* Every async method is therefore a small program with a pc; several      *)
(* invocations are in flight at once in the slots of `calls` / `checks`.   *)
(* A MongoDB operation takes effect atomically at the step that completes  *)
(* its await, and every operation may instead reject (connection loss,     *)
(* duplicate key, server-side rejection of the update document).           *)
(*                                                                         *)
(* The clock `now` counts seconds and advances in steps of TickSeconds;    *)
(* Date.now() is now*1000, so two calls with no Tick between them read the *)
(* same millisecond.                                                       *)
(***************************************************************************)
EXTENDS Integers, Sequences, FiniteSets, TLC

\* ------------------------------------------------------------------ bounds
MaxTime == 300
MaxDetectorTime == 600
TickSeconds == 300
MaxAlerts == 3
MaxCalls == 2
MaxObservations == 3
MaxChecks == 2
MaxAcknowledgements == 1

\* Date.now() / 1000 when the process starts: the clock starts here, far
\* enough from the epoch for `now - lastAlertTime` to start above the cooldown.
StartTime == 6000

\* ------------------------------------------------------- program constants
\* MonitoringSystem probes redis, rabbitmq and postgres; POST /simulate takes
\* the same names.  Two of them are enough for every interaction modelled.
Services == {"redis", "postgres"}

Statuses == {"up", "down"}

\* config.requestMetrics of config/index.ts with no environment overrides.
\* errorThreshold is 0.05 and the code compares with errorThreshold * 100,
\* which is exactly 5 in IEEE double arithmetic.
ErrorThresholdPercent == 5

VolumeThreshold == 100000

AlertCooldown == 600

\* processErrorAlert: `errorSummary.errorRate >= 10 ? 'critical' : 'warning'`.
CriticalErrorRate == 10

\* Map.get() of a service never observed returns undefined.
Undefined == "undefined"

\* A metadata member that is undefined, and one that holds the number n.
NoNumber == <<>>

Number(n) == <<n>>

\* A Date field that is not set.
NoDate == -1

\* The duration field of an alert that was never resolved.
NoDuration == <<>>

\* The value `{ $divide: [{ $subtract: [resolvedAt, '$timestamp'] }, 1000] }`
\* taken as it stands.  resolveAlertsByFingerprint passes an update DOCUMENT
\* to updateMany, not an aggregation pipeline (an array of stages), so nothing
\* evaluates the operators inside $set.  What the call does with them depends
\* on the build: Mongoose fails to cast the value to the Number path
\* `duration` and the call rejects, or the server rejects the $-prefixed
\* field name, or (MongoDB >= 5.0, the compose file runs mongo:7) the embedded
\* document itself becomes the field value.  The model takes all of them:
\* the call rejects, or it stores DivideDocument.
DivideDocument == <<"$divide", "$subtract", "$timestamp">>

VARIABLES
    now,            \* wall clock, seconds
    mongoEnabled,   \* config.mongodb.enabled: EnhancedAlertingService exists
    slackEnabled,   \* config.slack.enabled
    alertsEnabled,  \* config.alerts.enabled (AlertingService)
    serviceStates,  \* EnhancedAlertingService.serviceStates
    slackStates,    \* SlackNotifier.serviceStates
    alertingStates, \* AlertingService.serviceStates
    alerts,         \* the `alerts` collection: a set, alertId is unique
    calls,          \* invocations of processServiceAlert in flight
    seen,           \* history: last status handed to each tracker per service
    outbox,         \* the webhook requests the last step sent out
    observations,   \* history: number of requests and timer callbacks handled
    event,          \* what the last call returned to its caller
    slackWebhook,   \* config.slack.webhookUrl is not empty
    lastAlertTime,  \* RequestMetricsService.lastAlertTime
    metrics,        \* totals of requestCounter and errorCounter
    checks,         \* invocations of checkErrorRates in flight
    fires,          \* history: clock readings of the last two detector firings
    summaries,      \* the `alert_summaries` collection
    returned,       \* the documents the last read of the store returned
    probe,          \* how the last checkHealth of the polling loop ended
    utcOffset,      \* the process's time zone: local time - UTC, seconds
    timers,         \* the interval ids of MonitoringSystem that are set
    isConnected,    \* MongoDBAlertStore.isConnected
    starting,       \* where MonitoringSystem.start() stands
    stopping,       \* where each signal handler's stop() stands
    exited,         \* process.exit was called
    requestCounter, \* http_requests_total: the value under each label set
    errorCounter    \* http_errors_total: the value under each label set

vars == <<now, mongoEnabled, slackEnabled, alertsEnabled, serviceStates,
          slackStates, alertingStates, alerts, calls, seen, outbox, observations,
          event, slackWebhook, lastAlertTime, metrics, checks, fires,
          summaries, returned, probe, utcOffset, timers, isConnected,
          starting, stopping, exited, requestCounter, errorCounter>>

\* The state of the threshold detector and the state of the service trackers.
detectorVars == <<slackWebhook, lastAlertTime, metrics, checks, fires>>

trackerVars == <<serviceStates, slackStates, alertingStates, calls, seen,
                 observations>>

configVars == <<mongoEnabled, slackEnabled, alertsEnabled, utcOffset>>

\* What start(), stop() and the signal handlers of main write.
systemVars == <<timers, isConnected, starting, stopping, exited>>

\* The counters of RequestMetricsService label by label.  Only SpecMetrics
\* follows them; the detector reads their totals, which `metrics` holds.
counterVars == <<requestCounter, errorCounter>>

\* What only the store's reporting operations and the polling loop write.
apiVars == <<summaries, returned, probe>>

Trackers == {"enhanced", "slack", "alerting"}

\* ------------------------------------------------------------ fingerprint
\* A generateFingerprint that leaves the service out of what it hashes.
generateFingerprintWithoutService(service, alertType, metadata) ==
    <<"any", alertType, metadata.threshold, metadata.route>>

\* generateFingerprint: md5 of JSON.stringify({service, alertType,
\* threshold: metadata.threshold, route: metadata.route}).  JSON.stringify
\* drops undefined members; the digest is modelled as the canonical tuple it
\* hashes (md5 collisions are outside the model).
generateFingerprint(service, alertType, metadata) ==
    <<service, alertType, metadata.threshold, metadata.route>>

\* The `{}` passed as metadata by storeServiceAlert.
EmptyMetadata == [threshold |-> NoNumber, route |-> NoNumber]

\* ------------------------------------------------------------ alert store
\* AlertSchema.acknowledged of a new document: isAcknowledged defaults to
\* false, the other members are absent.
Unacknowledged ==
    [isAcknowledged |-> FALSE, acknowledgedBy |-> Undefined,
     acknowledgedAt |-> NoDate, reason |-> Undefined]

\* alertId of storeServiceAlert: `${alertType}_${status.name}_${Date.now()}`.
ServiceAlertId(alertType, name, t) == <<alertType, name, t * 1000>>

\* A storeServiceAlert that stores a recovery as an alert that is already
\* resolved.
ServiceAlertDataResolved(name, lastCheck, alertType, alertId) ==
    [ alertId     |-> alertId,
      alertType   |-> alertType,
      severity    |-> IF alertType = "service_down" THEN "critical" ELSE "info",
      status      |-> IF alertType = "service_down" THEN "firing"
                      ELSE "resolved",
      service     |-> name,
      timestamp   |-> lastCheck,
      resolvedAt  |-> IF alertType = "service_down" THEN NoDate
                      ELSE lastCheck,
      duration    |-> NoDuration,
      fingerprint |-> generateFingerprint(name, alertType, EmptyMetadata),
      errorRate   |-> NoNumber,
      requestCount |-> NoNumber,
      acknowledged |-> Unacknowledged,
      slackSent   |-> FALSE ]

\* The document storeServiceAlert builds (alertData), as AlertSchema stores it.
ServiceAlertData(name, lastCheck, alertType, alertId) ==
    [ alertId     |-> alertId,
      alertType   |-> alertType,
      severity    |-> IF alertType = "service_down" THEN "critical" ELSE "info",
      status      |-> "firing",
      service     |-> name,
      timestamp   |-> lastCheck,
      resolvedAt  |-> NoDate,
      duration    |-> NoDuration,
      fingerprint |-> generateFingerprint(name, alertType, EmptyMetadata),
      errorRate   |-> NoNumber,
      requestCount |-> NoNumber,
      acknowledged |-> Unacknowledged,
      slackSent   |-> FALSE ]

\* A duration that is a number (AlertSchema: `duration: { type: Number }`).
IsNumber(d) == Len(d) = 1

\* The documents the filter {fingerprint, status: 'firing'} selects.
FiringWith(fingerprint, collection) ==
    {a \in collection : a.fingerprint = fingerprint /\ a.status = "firing"}

\* Alert.save(): the unique index on alertId rejects a second document with
\* the same alertId.
CanInsert(doc) ==
    /\ Cardinality(alerts) < MaxAlerts
    /\ \A a \in alerts : a.alertId # doc.alertId

\* ResolveMatches without `status: 'firing'` in the filter.
ResolveMatchesAnyStatus(a, fingerprint) ==
    a.fingerprint = fingerprint

\* The filter of updateMany in resolveAlertsByFingerprint.
ResolveMatches(a, fingerprint) ==
    a.fingerprint = fingerprint /\ a.status = "firing"

\* The $set of updateMany in resolveAlertsByFingerprint applied to one
\* matching document.
ResolveUpdate(a, resolvedAt) ==
    [a EXCEPT !.status = "resolved",
              !.resolvedAt = resolvedAt,
              !.duration = DivideDocument]

\* The collection after updateMany.
ResolvedCollection(fingerprint, resolvedAt) ==
    {IF ResolveMatches(a, fingerprint) THEN ResolveUpdate(a, resolvedAt) ELSE a :
        a \in alerts}

\* result.modifiedCount of updateMany.
ModifiedCount(fingerprint) ==
    Cardinality({a \in alerts : ResolveMatches(a, fingerprint)})

\* An updateOne with `upsert: true`: a document is created when none has
\* the alertId.
NotificationUpserted(alertId) ==
    IF \E a \in alerts : a.alertId = alertId
    THEN {IF a.alertId = alertId THEN [a EXCEPT !.slackSent = TRUE] ELSE a :
             a \in alerts}
    ELSE alerts \cup
         {[ServiceAlertData(alertId[2], 0, alertId[1], alertId)
              EXCEPT !.slackSent = TRUE]}

\* updateOne({ alertId }, { $set: { 'notificationsSent.slack': {sent: true..}}})
\* changes the document with that alertId, none when there is none.
NotificationUpdated(alertId) ==
    {IF a.alertId = alertId THEN [a EXCEPT !.slackSent = TRUE] ELSE a :
        a \in alerts}

\* ------------------------------------------------------------ invocations
\* A slot of `calls`: the locals of one processServiceAlert in flight.
\* `repeat`, `notified` and `before` are history: was the observation a
\* repeat of the status last handed to the tracker, how many Slack messages
\* this invocation has sent, and, for a recovery, the alertIds of the firing
\* service_down alerts of the service that were stored when it started.
IdleCall ==
    [ pc |-> "idle", name |-> "redis", status |-> "up", lastCheck |-> 0,
      prev |-> Undefined, notified |-> 0, repeat |-> FALSE, before |-> {} ]

Slots == 1..MaxCalls

\* A new invocation takes the first slot that is not in use.
Free(c) ==
    /\ calls[c].pc = "idle"
    /\ \A d \in Slots : d < c => calls[d].pc # "idle"

\* TransitionType without the test `previousState === status.status`.
TransitionTypeEveryCycle(previousState, st) ==
    IF st = "down" THEN "service_down"
    ELSE IF previousState = "down" THEN "service_recovery"
    ELSE "none"

\* TransitionType without `&& previousState === 'down'`: every change to up
\* is a recovery.
TransitionTypeAnyChange(previousState, st) ==
    IF previousState = st THEN "none"
    ELSE IF st = "down" THEN "service_down"
    ELSE "service_recovery"

\* The alert type processServiceAlert stores for an observation.
TransitionType(previousState, st) ==
    IF previousState = st THEN "none"
    ELSE IF st = "down" THEN "service_down"
    ELSE IF previousState = "down" THEN "service_recovery"
    ELSE "none"

\* A request of sendSlackMessage or sendAlert, as the receiver sees it.
Message(channel, s, st, repeat) ==
    [channel |-> channel, name |-> s, status |-> st, repeat |-> repeat]

\* `probe` before any probe has settled.
NoProbe == [name |-> "none", outcome |-> "none"]

\* main registers a handler for each of the two signals.
Signals == {"SIGINT", "SIGTERM"}

\* The three interval ids of MonitoringSystem.
TimerIds == {"intervalId", "errorCheckIntervalId", "summaryIntervalId"}

\* MonitoringSystem and its store as constructed: no timer set, the store
\* not connected, start() not called, no signal delivered.
InitSystem ==
    /\ timers = {}
    /\ isConnected = FALSE
    /\ starting = "new"
    /\ stopping = [sig \in Signals |-> "idle"]
    /\ exited = FALSE

\* The label sets the counters are incremented under: the service the
\* middleware or POST /simulate-errors names, and the status code.
Labels == [service : {"api", "test-api"}, status_code : {"200", "500"}]

\* A counter with no value recorded, as constructed and after reset().
NoValues == [l \in Labels |-> 0]

\* `event` before any call has returned.
NoEvent ==
    [ kind |-> "none", name |-> "redis", status |-> "up", repeat |-> FALSE,
      alertType |-> "none", time |-> 0, fingerprint |-> <<>>, count |-> 0,
      threw |-> FALSE, last |-> 0, requests |-> 0, errors |-> 0,
      fired |-> FALSE, error |-> "none", args |-> <<>> ]

\* `event` when a tracker has taken an observation.
Observed(s, st, repeat) ==
    [NoEvent EXCEPT !.kind = "observe", !.name = s, !.status = st,
        !.repeat = repeat]

\* `event` when storeServiceAlert returns or throws.
Stored(s, alertType, time, threw) ==
    [NoEvent EXCEPT !.kind = "store", !.name = s, !.alertType = alertType,
        !.time = time, !.threw = threw]

\* `event` when resolveAlertsByFingerprint returns or throws.
Resolved(fingerprint, time, count, threw) ==
    [NoEvent EXCEPT !.kind = "resolve", !.fingerprint = fingerprint,
        !.time = time, !.count = count, !.threw = threw]

\* No traffic counted yet.
NoTraffic == [requests |-> 0, errors |-> 0]

\* A slot of `checks`: the locals of one checkErrorRates in flight, through
\* checkErrorThresholds (now, and lastAlertTime as the cooldown test read it)
\* and processErrorAlert (summary, and Date.now() at storeErrorAlert).
IdleCheck ==
    [pc |-> "idle", now |-> 0, last |-> 0, summary |-> NoTraffic, time |-> 0]

Init ==
    /\ now = StartTime
    /\ lastAlertTime = 0
    /\ metrics = NoTraffic
    /\ checks = [c \in Slots |-> IdleCheck]
    /\ fires = <<>>
    /\ mongoEnabled \in BOOLEAN
    /\ slackEnabled \in BOOLEAN
    /\ alertsEnabled \in IF mongoEnabled THEN {TRUE} ELSE BOOLEAN
    /\ slackWebhook = slackEnabled
    /\ serviceStates = [s \in Services |-> Undefined]
    /\ slackStates = [s \in Services |-> Undefined]
    /\ alertingStates = [s \in Services |-> Undefined]
    /\ alerts = {}
    /\ calls = [c \in Slots |-> IdleCall]
    /\ seen = [t \in Trackers |-> [s \in Services |-> Undefined]]
    /\ outbox = {}
    /\ observations = 0
    /\ event = NoEvent
    /\ summaries = {}
    /\ returned = <<>>
    /\ probe = NoProbe
    /\ utcOffset = 0
    /\ InitSystem
    /\ requestCounter = NoValues
    /\ errorCounter = NoValues

\* Time passes.
Tick ==
    /\ now < StartTime + MaxTime
    /\ now' = now + TickSeconds
    /\ outbox' = {}
    /\ UNCHANGED <<configVars, systemVars, counterVars, apiVars, serviceStates, slackStates, alertingStates,
                   alerts, calls, seen, observations, event, detectorVars>>

\* ----------------------------------------------- EnhancedAlertingService
\* A processServiceAlert that writes serviceStates only after its awaits:
\* at its first suspension point the map still holds the state it read.
StartProcessServiceAlertWritingLate(c, s, st) ==
    LET previousState == serviceStates[s]
        alertType == TransitionType(previousState, st)
        call == [IdleCall EXCEPT !.name = s, !.status = st, !.lastCheck = now,
                    !.prev = previousState,
                    !.repeat = (seen["enhanced"][s] = st),
                    !.pc = IF alertType = "service_down" THEN "save"
                           ELSE IF alertType = "service_recovery" THEN "resolve"
                           ELSE "idle"]
    IN  /\ serviceStates' = IF call.pc = "idle"
                            THEN [serviceStates EXCEPT ![s] = st]
                            ELSE serviceStates
        /\ calls' = [calls EXCEPT ![c] = IF call.pc = "idle" THEN IdleCall ELSE call]
        /\ seen' = [seen EXCEPT !["enhanced"][s] = st]
        /\ event' = Observed(s, st, call.repeat)
        /\ outbox' = {}
        /\ UNCHANGED <<slackStates, alertingStates>>

\* processServiceAlert up to its first await: the state tracker.  The read of
\* serviceStates and its update are in the same synchronous stretch.
\* storeServiceAlert is entered at once, so alertId takes Date.now() here.
StartProcessServiceAlert(c, s, st) ==
    LET previousState == serviceStates[s]
        alertType == TransitionType(previousState, st)
        call == [IdleCall EXCEPT !.name = s, !.status = st, !.lastCheck = now,
                    !.prev = previousState,
                    !.repeat = (seen["enhanced"][s] = st),
                    !.before = IF alertType = "service_recovery"
                               THEN {a.alertId : a \in FiringWith(
                                        generateFingerprint(s, "service_down",
                                            EmptyMetadata), alerts)}
                               ELSE {},
                    !.pc = IF alertType = "service_down" THEN "save"
                           ELSE IF alertType = "service_recovery" THEN "resolve"
                           ELSE "idle"]
    IN  /\ serviceStates' = [serviceStates EXCEPT ![s] = st]
        /\ calls' = [calls EXCEPT ![c] = IF call.pc = "idle" THEN IdleCall ELSE call]
        /\ seen' = [seen EXCEPT !["enhanced"][s] = st]
        /\ event' = Observed(s, st, call.repeat)
        /\ outbox' = {}
        /\ UNCHANGED <<slackStates, alertingStates>>

\* SlackNotifier.processAlert up to its await: TRUE when a message is sent.
SlackSends(s, st) ==
    /\ slackEnabled
    /\ slackStates[s] # st
    /\ \/ st = "down"
       \/ st = "up" /\ slackStates[s] = "down"

\* SlackNotifier.serviceStates after processAlert.
SlackStatesAfter(s, st) ==
    IF slackEnabled THEN [slackStates EXCEPT ![s] = st] ELSE slackStates

\* The request SlackNotifier.processAlert sends, if any.
SlackOutbox(s, st) ==
    IF SlackSends(s, st)
    THEN {Message("slack", s, st, seen["slack"][s] = st)}
    ELSE {}

\* AlertingService.processAlert up to its await: TRUE when sendAlert is called.
AlertingSends(s, st) ==
    /\ alertsEnabled
    /\ alertingStates[s] # st
    /\ \/ st = "down"
       \/ st = "up" /\ alertingStates[s] = "down"

\* AlertingService.serviceStates after processAlert.
AlertingStatesAfter(s, st) ==
    IF alertsEnabled THEN [alertingStates EXCEPT ![s] = st] ELSE alertingStates

\* The request AlertingService.processAlert sends, if any.
AlertingOutbox(s, st) ==
    IF AlertingSends(s, st)
    THEN {Message("alertmanager", s, st, seen["alerting"][s] = st)}
    ELSE {}

\* The two calls of performHealthChecks without an alert store; neither is
\* awaited, and sendAlert / sendSlackMessage catch every error of their fetch.
StartBasicAlerting(s, st) ==
    /\ alertingStates' = AlertingStatesAfter(s, st)
    /\ slackStates' = SlackStatesAfter(s, st)
    /\ outbox' = AlertingOutbox(s, st) \cup SlackOutbox(s, st)
    /\ seen' = [seen EXCEPT !["alerting"][s] = st, !["slack"][s] = st]
    /\ event' = Observed(s, st, seen["alerting"][s] = st)
    /\ UNCHANGED <<serviceStates, calls>>

\* The body of results.forEach in performHealthChecks for one probe result.
HealthCheck(s, st) ==
    /\ observations < MaxObservations
    /\ observations' = observations + 1
    /\ IF mongoEnabled
       THEN \E c \in Slots : Free(c) /\ StartProcessServiceAlert(c, s, st)
       ELSE StartBasicAlerting(s, st)
    /\ UNCHANGED <<now, configVars, systemVars, counterVars, apiVars, alerts, detectorVars>>

\* POST /simulate/:service/:status.
Simulate(s, st) ==
    /\ observations < MaxObservations
    /\ observations' = observations + 1
    /\ IF mongoEnabled
       THEN \E c \in Slots : Free(c) /\ StartProcessServiceAlert(c, s, st)
       ELSE /\ slackStates' = SlackStatesAfter(s, st)
            /\ outbox' = SlackOutbox(s, st)
            /\ seen' = [seen EXCEPT !["slack"][s] = st]
            /\ event' = Observed(s, st, seen["slack"][s] = st)
            /\ UNCHANGED <<serviceStates, alertingStates, calls>>
    /\ UNCHANGED <<now, configVars, systemVars, counterVars, apiVars, alerts, detectorVars>>

\* A storeServiceAlert that goes on to save() when the resolve rejected.
ResolveStepSwallowing(c, ok) ==
    LET call == calls[c]
        fingerprint == generateFingerprint(call.name, "service_down", EmptyMetadata)
    IN  /\ call.pc = "resolve"
        /\ alerts' = IF ok THEN ResolvedCollection(fingerprint, call.lastCheck)
                     ELSE alerts
        /\ calls' = [calls EXCEPT ![c] = [call EXCEPT !.pc = "save"]]
        /\ outbox' = {}
        /\ UNCHANGED <<now, configVars, systemVars, counterVars, apiVars, serviceStates, slackStates,
                       alertingStates, seen, observations, event, detectorVars>>

\* storeServiceAlert, recovery: `await this.resolveAlertsByFingerprint(
\* generateFingerprint(status.name, 'service_down', {}), status.lastCheck)`.
\* A rejection lands in the catch block of processServiceAlert.
ResolveStep(c, ok) ==
    LET call == calls[c]
        fingerprint == generateFingerprint(call.name, "service_down", EmptyMetadata)
    IN  /\ call.pc = "resolve"
        /\ alerts' = IF ok THEN ResolvedCollection(fingerprint, call.lastCheck)
                     ELSE alerts
        /\ calls' = [calls EXCEPT ![c] =
                        IF ok THEN [call EXCEPT !.pc = "save"] ELSE IdleCall]
        /\ outbox' = {}
        /\ UNCHANGED <<now, configVars, systemVars, counterVars, apiVars, serviceStates, slackStates,
                       alertingStates, seen, observations, event, detectorVars>>

\* A save that would resolve the firing alerts of the same fingerprint
\* before it adds the new one.
SaveStepReplacing(c, ok) ==
    LET call == calls[c]
        alertType == TransitionType(call.prev, call.status)
        doc == ServiceAlertData(call.name, call.lastCheck, alertType,
                   ServiceAlertId(alertType, call.name, call.lastCheck))
    IN  /\ call.pc = "save"
        /\ IF ok /\ CanInsert(doc)
           THEN /\ alerts' = ResolvedCollection(doc.fingerprint,
                                                call.lastCheck) \cup {doc}
                /\ calls' = [calls EXCEPT ![c].pc = "notify"]
           ELSE /\ alerts' = alerts
                /\ calls' = [calls EXCEPT ![c] = IdleCall]
        /\ outbox' = {}
        /\ UNCHANGED <<now, configVars, systemVars, counterVars, apiVars, serviceStates, slackStates,
                       alertingStates, seen, observations, event, detectorVars>>

\* storeServiceAlert: `await alert.save()`.
SaveStep(c, ok) ==
    LET call == calls[c]
        alertType == TransitionType(call.prev, call.status)
        doc == ServiceAlertData(call.name, call.lastCheck, alertType,
                   ServiceAlertId(alertType, call.name, call.lastCheck))
    IN  /\ call.pc = "save"
        /\ IF ok /\ CanInsert(doc)
           THEN /\ alerts' = alerts \cup {doc}
                /\ calls' = [calls EXCEPT ![c].pc = "notify"]
           ELSE /\ alerts' = alerts
                /\ calls' = [calls EXCEPT ![c] = IdleCall]
        /\ outbox' = {}
        /\ UNCHANGED <<now, configVars, systemVars, counterVars, apiVars, serviceStates, slackStates,
                       alertingStates, seen, observations, event, detectorVars>>

\* processServiceAlert: `await this.slackNotifier.processAlert(status)`, then
\* the test of config.enabled that guards updateNotificationStatus.
NotifyStep(c) ==
    LET call == calls[c]
        after == [call EXCEPT
                    !.notified = IF SlackSends(call.name, call.status)
                                 THEN call.notified + 1 ELSE call.notified,
                    !.pc = "update"]
    IN  /\ call.pc = "notify"
        /\ slackStates' = SlackStatesAfter(call.name, call.status)
        /\ calls' = [calls EXCEPT ![c] = IF slackEnabled THEN after ELSE IdleCall]
        /\ outbox' = SlackOutbox(call.name, call.status)
        /\ seen' = [seen EXCEPT !["slack"][call.name] = call.status]
        /\ UNCHANGED <<now, configVars, systemVars, counterVars, apiVars, serviceStates, alertingStates, alerts,
                       observations, event, detectorVars>>

\* processServiceAlert: `await this.mongoStore.updateNotificationStatus(
\* alert.alertId, 'slack', ...)`.
UpdateStep(c, ok) ==
    LET call == calls[c]
        alertType == TransitionType(call.prev, call.status)
    IN  /\ call.pc = "update"
        /\ alerts' = IF ok
                     THEN NotificationUpdated(
                              ServiceAlertId(alertType, call.name, call.lastCheck))
                     ELSE alerts
        /\ calls' = [calls EXCEPT ![c] = IdleCall]
        /\ outbox' = {}
        /\ UNCHANGED <<now, configVars, systemVars, counterVars, apiVars, serviceStates, slackStates,
                       alertingStates, seen, observations, event, detectorVars>>

Next ==
    \/ Tick
    \/ \E s \in Services, st \in Statuses : HealthCheck(s, st)
    \/ \E s \in Services, st \in Statuses : Simulate(s, st)
    \/ \E c \in Slots, ok \in BOOLEAN : ResolveStep(c, ok)
    \/ \E c \in Slots, ok \in BOOLEAN : SaveStep(c, ok)
    \/ \E c \in Slots : NotifyStep(c)
    \/ \E c \in Slots, ok \in BOOLEAN : UpdateStep(c, ok)

Spec == Init /\ [][Next]_vars

\* ------------------------------------------------- the store called directly
\* The store as a caller sees it that awaits each call before the next one
\* (the alerting service with one observation at a time, or a test).

\* The alert store exists and nothing else is configured.
InitStore ==
    /\ Init
    /\ mongoEnabled
    /\ ~slackEnabled

\* MongoDBAlertStore.storeServiceAlert(status, alertType), awaited: for a
\* recovery the updateMany of resolveAlertsByFingerprint first, then save().
\* Either await may reject; a rejected resolve leaves the alert unsaved.
StoreServiceAlert(s, alertType, okResolve, okSave) ==
    LET fingerprint == generateFingerprint(s, "service_down", EmptyMetadata)
        doc == ServiceAlertData(s, now, alertType, ServiceAlertId(alertType, s, now))
        resolving == alertType = "service_recovery"
        resolved == IF resolving /\ okResolve
                    THEN ResolvedCollection(fingerprint, now) ELSE alerts
        saved == (resolving => okResolve) /\ okSave /\ CanInsert(doc)
    IN  /\ alerts' = IF saved THEN resolved \cup {doc} ELSE resolved
        /\ event' = Stored(s, alertType, now, ~saved)
        /\ outbox' = {}
        /\ UNCHANGED <<now, configVars, systemVars, counterVars, apiVars, serviceStates, slackStates,
                       alertingStates, calls, seen, observations, detectorVars>>

\* EnhancedAlertingService.resolveAlert(fingerprint): manual resolution, with
\* resolvedAt defaulting to new Date(); an error of the store is caught and 0
\* is returned.
ResolveAlert(fingerprint, ok) ==
    /\ alerts' = IF ok THEN ResolvedCollection(fingerprint, now) ELSE alerts
    /\ event' = Resolved(fingerprint, now,
                         IF ok THEN ModifiedCount(fingerprint) ELSE 0, ~ok)
    /\ outbox' = {}
    /\ UNCHANGED <<now, configVars, systemVars, counterVars, apiVars, serviceStates, slackStates,
                   alertingStates, calls, seen, observations, detectorVars>>

\* The fingerprints a caller of resolveAlert can name.
Fingerprints ==
    {generateFingerprint(s, t, EmptyMetadata) :
        s \in Services, t \in {"service_down", "service_recovery"}}

NextStore ==
    \/ Tick
    \/ \E s \in Services, t \in {"service_down", "service_recovery"},
          okResolve \in BOOLEAN, okSave \in BOOLEAN :
            StoreServiceAlert(s, t, okResolve, okSave)
    \/ \E fp \in Fingerprints, ok \in BOOLEAN : ResolveAlert(fp, ok)

SpecStore == InitStore /\ [][NextStore]_vars

\* ------------------------------------------------- error-rate detector
\* Greatest common divisor, to keep a rate as a reduced fraction.
RECURSIVE GCD(_, _)
GCD(a, b) == IF b = 0 THEN a ELSE GCD(b, a % b)

\* A non-negative rational p/q as the reduced pair <<p, q>>.
Fraction(p, q) == <<p \div GCD(p, q), q \div GCD(p, q)>>

\* rate >= n, for a rate <<p, q>> and an integer n.
RateAtLeast(rate, n) == rate[1] >= n * rate[2]

\* rate > n.
RateAbove(rate, n) == rate[1] > n * rate[2]

\* getErrorSummary: `totalRequests > 0 ? (totalErrors / totalRequests) * 100
\* : 0`, kept exact.
ErrorRate(totalRequests, totalErrors) ==
    IF totalRequests > 0 THEN Fraction(totalErrors * 100, totalRequests)
    ELSE <<0, 1>>

\* The totals the counters can show: each side of the volume threshold, of
\* the 5% threshold and of the 10% severity threshold, and the threshold
\* values themselves.
Samples ==
    { [requests |-> 50000,  errors |-> 5000],
      [requests |-> 100000, errors |-> 4999],
      [requests |-> 100000, errors |-> 5000],
      [requests |-> 200000, errors |-> 12000],
      [requests |-> 200000, errors |-> 20000] }

\* The threshold test of checkErrorThresholds with `>` for `>=`.
QualifiesStrictly(summary) ==
    /\ summary.requests > VolumeThreshold
    /\ RateAbove(ErrorRate(summary.requests, summary.errors),
                 ErrorThresholdPercent)

\* checkErrorThresholds: `summary.totalRequests >= volumeThreshold &&
\* summary.errorRate >= errorThreshold * 100`.
Qualifies(summary) ==
    /\ summary.requests >= VolumeThreshold
    /\ RateAtLeast(ErrorRate(summary.requests, summary.errors),
                   ErrorThresholdPercent)

\* processErrorAlert's severity with `>` for `>=`.
SeverityAbove(summary) ==
    IF RateAbove(ErrorRate(summary.requests, summary.errors),
                 CriticalErrorRate)
    THEN "critical" ELSE "warning"

\* processErrorAlert: `errorSummary.errorRate >= 10 ? 'critical' : 'warning'`.
Severity(summary) ==
    IF RateAtLeast(ErrorRate(summary.requests, summary.errors),
                   CriticalErrorRate)
    THEN "critical" ELSE "warning"

\* storeErrorAlert: `high_error_rate_${Date.now()}`.
ErrorAlertId(t) == <<"high_error_rate", t * 1000>>

\* storeErrorAlert: the document it builds.
ErrorAlertData(summary, severity, t) ==
    LET errorRate == ErrorRate(summary.requests, summary.errors)
    IN  [ alertId     |-> ErrorAlertId(t),
          alertType   |-> "high_error_rate",
          severity    |-> severity,
          status      |-> "firing",
          service     |-> "system",
          timestamp   |-> t,
          resolvedAt  |-> NoDate,
          duration    |-> NoDuration,
          fingerprint |-> generateFingerprint("system", "high_error_rate",
                              [threshold |-> errorRate, route |-> NoNumber]),
          errorRate   |-> errorRate,
          requestCount |-> Number(summary.requests),
          acknowledged |-> Unacknowledged,
          slackSent   |-> FALSE ]

\* What checkErrorThresholds returned: fired is TRUE for a summary, FALSE for
\* null; time is its `now`, last the lastAlertTime its cooldown test read.
Checked(time, last, summary, fired) ==
    [NoEvent EXCEPT !.kind = "check", !.time = time, !.last = last,
                    !.requests = summary.requests, !.errors = summary.errors,
                    !.fired = fired]

\* The first idle slot of `checks`.
FreeCheck(c) ==
    /\ checks[c].pc = "idle"
    /\ \A d \in Slots : d < c => checks[d].pc # "idle"

\* The last two firings, the newest last.
Fired(t) == IF fires = <<>> THEN <<t>> ELSE <<fires[Len(fires)], t>>

InitDetector ==
    /\ Init
    /\ alertsEnabled

\* Seconds pass.
DetectorTick ==
    /\ now < StartTime + MaxDetectorTime
    /\ now' = now + TickSeconds
    /\ outbox' = {}
    /\ UNCHANGED <<configVars, systemVars, counterVars, apiVars, alerts, event, trackerVars, detectorVars>>

\* The metrics middleware counts requests and errors: the counters only grow.
Traffic(m) ==
    /\ m.requests >= metrics.requests
    /\ m.errors >= metrics.errors
    /\ m # metrics
    /\ metrics' = m
    /\ outbox' = {}
    /\ UNCHANGED <<now, configVars, systemVars, counterVars, apiVars, alerts, event, trackerVars, slackWebhook,
                   lastAlertTime, checks, fires>>

\* RequestMetricsService.reset, called by POST /reset-metrics.
ResetMetrics ==
    /\ observations < MaxChecks
    /\ observations' = observations + 1
    /\ metrics' = NoTraffic
    /\ lastAlertTime' = 0
    /\ requestCounter' = NoValues
    /\ errorCounter' = NoValues
    /\ outbox' = {}
    /\ UNCHANGED <<now, configVars, systemVars, apiVars, alerts, event, serviceStates, slackStates,
                   alertingStates, calls, seen, slackWebhook, checks, fires>>

\* checkErrorRates, through checkErrorThresholds up to its first await: the
\* cooldown test.  `return null` ends checkErrorRates at once.
StartCheckErrorRates(c) ==
    /\ FreeCheck(c)
    /\ observations < MaxChecks
    /\ observations' = observations + 1
    /\ IF now - lastAlertTime < AlertCooldown
       THEN /\ event' = Checked(now, lastAlertTime, metrics, FALSE)
            /\ UNCHANGED checks
       ELSE /\ checks' = [checks EXCEPT ![c] =
                            [IdleCheck EXCEPT !.pc = "summary", !.now = now,
                                              !.last = lastAlertTime]]
            /\ UNCHANGED event
    /\ outbox' = {}
    /\ UNCHANGED <<now, configVars, systemVars, counterVars, apiVars, alerts, serviceStates, slackStates,
                   alertingStates, calls, seen, slackWebhook, lastAlertTime,
                   metrics, fires>>

\* A checkErrorThresholds that returns the summary without the write of
\* lastAlertTime.
SummaryStepKeepingTime(c) ==
    LET call == checks[c]
        summary == metrics
    IN  /\ call.pc = "summary"
        /\ IF Qualifies(summary)
           THEN /\ fires' = Fired(now)
                /\ event' = Checked(call.now, call.last, summary, TRUE)
                /\ checks' = [checks EXCEPT ![c] =
                                IF mongoEnabled
                                THEN [call EXCEPT !.pc = "save",
                                                  !.summary = summary,
                                                  !.time = now]
                                ELSE IdleCheck]
           ELSE /\ event' = Checked(call.now, call.last, summary, FALSE)
                /\ checks' = [checks EXCEPT ![c] = IdleCheck]
                /\ UNCHANGED fires
        /\ outbox' = {}
        /\ UNCHANGED <<now, configVars, systemVars, counterVars, apiVars, alerts, trackerVars, slackWebhook,
                       metrics, lastAlertTime>>

\* checkErrorThresholds after `await this.getErrorSummary()` (the counters are
\* in memory: the read does not reject): the threshold test and the write of
\* lastAlertTime; then checkErrorRates enters processErrorAlert, which
\* computes the severity and enters storeErrorAlert up to `alert.save()`.
SummaryStep(c) ==
    LET call == checks[c]
        summary == metrics
    IN  /\ call.pc = "summary"
        /\ IF Qualifies(summary)
           THEN /\ lastAlertTime' = call.now
                /\ fires' = Fired(now)
                /\ event' = Checked(call.now, call.last, summary, TRUE)
                /\ checks' = [checks EXCEPT ![c] =
                                IF mongoEnabled
                                THEN [call EXCEPT !.pc = "save",
                                                  !.summary = summary,
                                                  !.time = now]
                                ELSE IdleCheck]
           ELSE /\ event' = Checked(call.now, call.last, summary, FALSE)
                /\ checks' = [checks EXCEPT ![c] = IdleCheck]
                /\ UNCHANGED <<lastAlertTime, fires>>
        /\ outbox' = {}
        /\ UNCHANGED <<now, configVars, systemVars, counterVars, apiVars, alerts, trackerVars, slackWebhook,
                       metrics>>

\* A storeErrorAlert that resolves the firing high_error_rate alerts before
\* it saves the new one, as storeServiceAlert does for a recovery.
ErrorSaveStepResolving(c, ok) ==
    LET call == checks[c]
        doc == ErrorAlertData(call.summary, Severity(call.summary), call.time)
    IN  /\ call.pc = "save"
        /\ IF ok /\ CanInsert(doc)
           THEN /\ alerts' =
                     {IF a.alertType = "high_error_rate" /\ a.status = "firing"
                      THEN ResolveUpdate(a, call.time) ELSE a : a \in alerts}
                         \cup {doc}
                /\ checks' = [checks EXCEPT ![c].pc = "send"]
                /\ outbox' = IF slackWebhook
                             THEN {Message("slack", "system",
                                           Severity(call.summary), FALSE)}
                             ELSE {}
           ELSE /\ checks' = [checks EXCEPT ![c] = IdleCheck]
                /\ outbox' = {}
                /\ UNCHANGED alerts
        /\ UNCHANGED <<now, configVars, systemVars, counterVars, apiVars, event, trackerVars, slackWebhook,
                       lastAlertTime, metrics, fires>>

\* storeErrorAlert: `await alert.save()`; a rejection ends processErrorAlert in
\* its catch.  sendErrorSlackAlert is entered at once and posts to the webhook
\* when there is one.
ErrorSaveStep(c, ok) ==
    LET call == checks[c]
        doc == ErrorAlertData(call.summary, Severity(call.summary), call.time)
    IN  /\ call.pc = "save"
        /\ IF ok /\ CanInsert(doc)
           THEN /\ alerts' = alerts \cup {doc}
                /\ checks' = [checks EXCEPT ![c].pc = "send"]
                /\ outbox' = IF slackWebhook
                             THEN {Message("slack", "system",
                                           Severity(call.summary), FALSE)}
                             ELSE {}
           ELSE /\ checks' = [checks EXCEPT ![c] = IdleCheck]
                /\ outbox' = {}
                /\ UNCHANGED alerts
        /\ UNCHANGED <<now, configVars, systemVars, counterVars, apiVars, event, trackerVars, slackWebhook,
                       lastAlertTime, metrics, fires>>

\* sendErrorSlackAlert: `await fetch(webhookUrl, ...)` is not in a try block;
\* a rejection ends processErrorAlert in its catch.  Without a webhook the
\* function returns with nothing sent.  updateNotificationStatus is entered.
ErrorSendStep(c, ok) ==
    LET call == checks[c]
    IN  /\ call.pc = "send"
        /\ checks' = [checks EXCEPT ![c] =
                        IF ok \/ ~slackWebhook
                        THEN [call EXCEPT !.pc = "update"]
                        ELSE IdleCheck]
        /\ outbox' = {}
        /\ UNCHANGED <<now, configVars, systemVars, counterVars, apiVars, alerts, event, trackerVars,
                       slackWebhook, lastAlertTime, metrics, fires>>

\* processErrorAlert: `await this.mongoStore.updateNotificationStatus(...)`.
ErrorUpdateStep(c, ok) ==
    LET call == checks[c]
    IN  /\ call.pc = "update"
        /\ alerts' = IF ok THEN NotificationUpdated(ErrorAlertId(call.time))
                     ELSE alerts
        /\ checks' = [checks EXCEPT ![c] = IdleCheck]
        /\ outbox' = {}
        /\ UNCHANGED <<now, configVars, systemVars, counterVars, apiVars, event, trackerVars, slackWebhook,
                       lastAlertTime, metrics, fires>>

NextDetector ==
    \/ DetectorTick
    \/ \E m \in Samples : Traffic(m)
    \/ ResetMetrics
    \/ \E c \in Slots : StartCheckErrorRates(c)
    \/ \E c \in Slots : SummaryStep(c)
    \/ \E c \in Slots, ok \in BOOLEAN : ErrorSaveStep(c, ok)
    \/ \E c \in Slots, ok \in BOOLEAN : ErrorSendStep(c, ok)
    \/ \E c \in Slots, ok \in BOOLEAN : ErrorUpdateStep(c, ok)

SpecDetector == InitDetector /\ [][NextDetector]_vars

\* ------------------------------------------------- reports of the store
\* The `alerts` collection outlives the process: what the reporting
\* operations read is what earlier runs and other writers left there, any
\* documents AlertSchema admits.  A document of the collection:
StoredAlert(name, alertType, timestamp, status, resolvedAt, duration) ==
    [ServiceAlertData(name, timestamp, alertType,
                      ServiceAlertId(alertType, name, timestamp))
        EXCEPT !.status = status, !.resolvedAt = resolvedAt,
               !.duration = duration]

\* Date.setHours works on whole days of 86400 seconds.
SecondsPerDay == 86400

\* generateDailySummaries: `$ifNull: ['$duration', 999999]`.
MinDurationSentinel == 999999

\* The documents the collection is drawn from: firing and resolved alerts of
\* two days, with equal timestamps among them, short and long outages, and
\* one whose duration is the operator document.
SampleAlerts ==
    { StoredAlert("redis", "service_down", StartTime, "firing",
                  NoDate, NoDuration),
      StoredAlert("redis", "service_down", StartTime + 300, "resolved",
                  StartTime + 330, Number(30)),
      StoredAlert("redis", "service_down", StartTime + 600, "resolved",
                  StartTime + 1200600, Number(1200000)),
      StoredAlert("redis", "service_down", StartTime + SecondsPerDay,
                  "firing", NoDate, NoDuration),
      StoredAlert("redis", "service_recovery", StartTime + 300, "firing",
                  NoDate, NoDuration),
      StoredAlert("postgres", "service_down", StartTime, "resolved",
                  StartTime + 300, DivideDocument) }

\* The collections of at most MaxAlerts documents.
SampleCollections ==
    {c \in SUBSET SampleAlerts : Cardinality(c) <= MaxAlerts}

\* The time zones the process may run in: UTC, and five hours west of it.
UtcOffsets == {0, -18000}

\* Midnight of the UTC day, as Date.setUTCHours(0, 0, 0, 0) gives it.
StartOfUtcDay(date) == date - (date % SecondsPerDay)

\* `startDate.setHours(0, 0, 0, 0)`: midnight of the day in the process's
\* local time.
StartOfDay(date) == date - ((date + utcOffset) % SecondsPerDay)

\* `endDate.setHours(23, 59, 59, 999)`; timestamps are whole seconds.
EndOfDay(date) == StartOfDay(date) + SecondsPerDay - 1

\* $match: `timestamp: { $gte: startDate, $lte: endDate }`.
MatchedOn(date) ==
    {a \in alerts : /\ a.timestamp >= StartOfDay(date)
                    /\ a.timestamp <= EndOfDay(date)}

\* $group: `_id: { service, alertType, severity }`.
GroupId(a) ==
    [service |-> a.service, alertType |-> a.alertType, severity |-> a.severity]

GroupIds(date) == {GroupId(a) : a \in MatchedOn(date)}

GroupOf(date, id) == {a \in MatchedOn(date) : GroupId(a) = id}

\* `$ifNull: ['$duration', n]`.
IfNull(duration, n) == IF duration = NoDuration THEN Number(n) ELSE duration

\* The numbers among `$ifNull: ['$duration', n]` over a group, one per
\* document: as a set of <<alertId, number>> pairs.
NumbersOf(group, n) ==
    {<<a.alertId, IfNull(a.duration, n)[1]>> :
        a \in {b \in group : IsNumber(IfNull(b.duration, n))}}

\* $sum adds the numbers and skips every other value.
RECURSIVE SumOf(_)
SumOf(pairs) ==
    IF pairs = {} THEN 0
    ELSE LET p == CHOOSE q \in pairs : TRUE
         IN  p[2] + SumOf(pairs \ {p})

\* $max by BSON order: an embedded document is above every number.
MaxOf(group, n) ==
    IF \E a \in group : ~IsNumber(IfNull(a.duration, n))
    THEN DivideDocument
    ELSE Number(CHOOSE m \in {p[2] : p \in NumbersOf(group, n)} :
                    \A p \in NumbersOf(group, n) : p[2] <= m)

\* $min by BSON order: every number is below an embedded document.
MinOf(group, n) ==
    IF NumbersOf(group, n) = {}
    THEN DivideDocument
    ELSE Number(CHOOSE m \in {p[2] : p \in NumbersOf(group, n)} :
                    \A p \in NumbersOf(group, n) : p[2] >= m)

\* $avg: the mean of the numbers, as a reduced fraction; null without any.
AvgOf(group, n) ==
    IF NumbersOf(group, n) = {} THEN NoNumber
    ELSE Fraction(SumOf(NumbersOf(group, n)),
                  Cardinality(NumbersOf(group, n)))

\* The AlertSummary document generateDailySummaries writes for one group.
SummaryOf(date, id) ==
    LET group == GroupOf(date, id)
        minDuration == MinOf(group, MinDurationSentinel)
    IN  [ date             |-> StartOfDay(date),
          service          |-> id.service,
          alertType        |-> id.alertType,
          severity         |-> id.severity,
          totalAlerts      |-> Cardinality(group),
          resolvedAlerts   |-> Cardinality({a \in group :
                                              a.status = "resolved"}),
          unresolvedAlerts |-> Cardinality({a \in group :
                                              a.status = "firing"}),
          totalDuration    |-> SumOf(NumbersOf(group, 0)),
          maxDuration      |-> MaxOf(group, 0),
          minDuration      |-> IF minDuration = Number(MinDurationSentinel)
                               THEN Number(0) ELSE minDuration,
          avgDuration      |-> AvgOf(group, 0) ]

\* The filter of findOneAndUpdate: date, service, alertType, severity.
SummaryKey(row) ==
    [date |-> row.date, service |-> row.service, alertType |-> row.alertType,
     severity |-> row.severity]

\* An upsert that adds the new counts to the row it finds.
UpsertedAdding(rows, row) ==
    LET found == {r \in rows : SummaryKey(r) = SummaryKey(row)}
    IN  (rows \ found) \cup
        (IF found = {} THEN {row}
         ELSE {[row EXCEPT !.totalAlerts = row.totalAlerts + r.totalAlerts,
                           !.totalDuration =
                               row.totalDuration + r.totalDuration] :
                 r \in found})

\* findOneAndUpdate(key, values, { upsert: true }): the row with the key is
\* overwritten, or created when there is none.
Upserted(rows, row) ==
    {r \in rows : SummaryKey(r) # SummaryKey(row)} \cup {row}

\* The rows after the upserts of the groups in `ids`; upserts of different
\* keys commute.
RECURSIVE UpsertedAll(_, _, _)
UpsertedAll(rows, date, ids) ==
    IF ids = {} THEN rows
    ELSE LET id == CHOOSE i \in ids : TRUE
         IN  UpsertedAll(Upserted(rows, SummaryOf(date, id)), date,
                         ids \ {id})

\* What generateDailySummaries returned; repeat is history: the run follows
\* a run for the same day that completed, with no other call in between.
Summarised(date, threw) ==
    [NoEvent EXCEPT !.kind = "summaries", !.time = StartOfDay(date),
                    !.args = <<date>>, !.threw = threw,
                    !.repeat = /\ event.kind = "summaries"
                               /\ ~event.threw
                               /\ event.time = StartOfDay(date),
                    !.error = IF threw THEN "store" ELSE "none"]

\* generateDailySummaries(date), started by the hourly timer of start():
\* the aggregation, then one awaited upsert per group.  `written` are the
\* groups whose upsert completed before the aggregation or an upsert
\* rejected; all of them when nothing rejects.
GenerateDailySummaries(date, ok, written) ==
    /\ mongoEnabled
    /\ written \subseteq GroupIds(date)
    /\ ok => written = GroupIds(date)
    /\ summaries' = UpsertedAll(summaries, date, written)
    /\ event' = Summarised(date, ~ok)
    /\ outbox' = {}
    /\ returned' = <<>>
    /\ UNCHANGED <<now, configVars, systemVars, counterVars, alerts, trackerVars, detectorVars, probe>>

\* The days the hourly timer asks summaries for.
ReportDates == {StartTime, StartTime + SecondsPerDay}

\* queryAlerts: `query.limit || 50`.
DefaultLimit == 50

\* The queries GET /alerts passes on: limit and offset are the parseInt of
\* the request's parameters, sortBy and sortOrder are always present.
Queries ==
    [ service   : {Undefined},
      status    : {Undefined, "firing"},
      limit     : {0, 1, 2},
      offset    : {0, 1},
      sortBy    : {"timestamp"},
      sortOrder : {"asc", "desc"} ]

\* queryAlerts: the filter built from the members of the query that are set.
Matching(query) ==
    {a \in alerts :
        /\ query.service # Undefined => a.service = query.service
        /\ query.status # Undefined => a.status = query.status}

\* The value of the sort field in a document.
SortKey(a, sortBy) ==
    IF sortBy = "resolvedAt" THEN a.resolvedAt ELSE a.timestamp

\* sort({ [field]: 1 }) is ascending, sort({ [field]: -1 }) descending.
InOrder(x, y, sortOrder) == IF sortOrder = "asc" THEN x <= y ELSE x >= y

\* find(...).sort(...): the orders a sort can return the documents in;
\* documents with equal keys come in any order.
RECURSIVE SortedResults(_, _, _)
SortedResults(docs, sortBy, sortOrder) ==
    IF docs = {} THEN {<<>>}
    ELSE UNION
           {{<<a>> \o rest :
               rest \in SortedResults(docs \ {a}, sortBy, sortOrder)} :
              a \in {b \in docs :
                       \A c \in docs :
                           InOrder(SortKey(b, sortBy), SortKey(c, sortBy),
                                   sortOrder)}}

\* skip(offset).limit(limit) on a result.
Page(full, offset, limit) ==
    SubSeq(full, offset + 1,
           IF offset + limit < Len(full) THEN offset + limit ELSE Len(full))

\* queryAlerts: `const limit = query.limit || 50`.
LimitOf(query) == IF query.limit = 0 THEN DefaultLimit ELSE query.limit

\* queryAlerts: `const offset = query.offset || 0`.
OffsetOf(query) == query.offset

\* `if (!this.mongoStore) throw new Error('MongoDB storage is not enabled')`
\* without the test.
StoreAssumed == TRUE

\* MonitoringSystem: `this.mongoStore` is set; the constructor creates the
\* store only when config.mongodb.enabled.
StoreEnabled == mongoEnabled

\* What a store-dependent operation of MonitoringSystem reports when its
\* guard throws.
NotEnabled(kind, args) ==
    [NoEvent EXCEPT !.kind = kind, !.args = args, !.threw = TRUE,
                    !.error = "not enabled"]

\* What a store operation reports: its result count, or the rejection of
\* its database call.
Reported(kind, args, count, ok) ==
    [NoEvent EXCEPT !.kind = kind, !.args = args,
                    !.count = IF ok THEN count ELSE 0,
                    !.threw = ~ok,
                    !.error = IF ok THEN "none" ELSE "store"]

\* MonitoringSystem.getAlertHistory(query): the guard, then queryAlerts:
\* find/sort/skip/limit and countDocuments under one Promise.all.
GetAlertHistory(query, ok) ==
    /\ IF ~StoreEnabled
       THEN /\ event' = NotEnabled("query", query)
            /\ returned' = <<>>
       ELSE /\ event' = Reported("query", query,
                                 Cardinality(Matching(query)), ok)
            /\ IF ok
               THEN \E full \in SortedResults(Matching(query), query.sortBy,
                                              query.sortOrder) :
                        returned' = Page(full, OffsetOf(query),
                                         LimitOf(query))
               ELSE returned' = <<>>
    /\ outbox' = {}
    /\ UNCHANGED <<now, configVars, systemVars, counterVars, alerts, trackerVars, detectorVars,
                   summaries, probe>>

\* A find without the filter on status.
ActiveAlertsAny(collection) == collection

\* getActiveAlerts: `Alert.find({ status: 'firing' })`.
ActiveAlerts(collection) == {a \in collection : a.status = "firing"}

\* MonitoringSystem.getActiveAlerts(): the guard, then
\* find({ status: 'firing' }).sort({ timestamp: -1 }).
GetActiveAlerts(ok) ==
    /\ IF ~StoreEnabled
       THEN /\ event' = NotEnabled("active", <<>>)
            /\ returned' = <<>>
       ELSE /\ event' = Reported("active", <<>>,
                                 Cardinality(ActiveAlerts(alerts)), ok)
            /\ IF ok
               THEN returned' \in SortedResults(ActiveAlerts(alerts),
                                                "timestamp", "desc")
               ELSE returned' = <<>>
    /\ outbox' = {}
    /\ UNCHANGED <<now, configVars, systemVars, counterVars, alerts, trackerVars, detectorVars,
                   summaries, probe>>

\* MonitoringSystem.getAlertStats(): the guard, then the aggregations of
\* getAlertStats under one Promise.all; of its result the model keeps
\* totalAlerts (`$sum: 1` over all documents).
GetAlertStats(ok) ==
    /\ IF ~StoreEnabled
       THEN event' = NotEnabled("stats", <<>>)
       ELSE event' = Reported("stats", <<>>, Cardinality(alerts), ok)
    /\ outbox' = {}
    /\ returned' = <<>>
    /\ UNCHANGED <<now, configVars, systemVars, counterVars, alerts, trackerVars, detectorVars,
                   summaries, probe>>

\* An alertId no document has: nothing is stored at time 0.
MissingAlertId == ServiceAlertId("service_down", "redis", 0)

\* The alertIds a caller can name.
AlertIds == {a.alertId : a \in alerts} \cup {MissingAlertId}

\* The bodies of POST /alerts/:id/acknowledge: who acknowledges, with the
\* optional reason given or left out.
Acknowledgements ==
    { [acknowledgedBy |-> "alice", reason |-> "planned"],
      [acknowledgedBy |-> "bob",   reason |-> Undefined] }

\* An acknowledgeAlert whose $set also marks the alert as notified.
AcknowledgedAndNotified(alertId, acknowledgedBy, reason) ==
    {IF a.alertId = alertId
     THEN [a EXCEPT !.acknowledged =
              [isAcknowledged |-> TRUE,
               acknowledgedBy |-> acknowledgedBy,
               acknowledgedAt |-> now,
               reason         |-> IF reason = Undefined
                                  THEN a.acknowledged.reason ELSE reason],
                    !.slackSent = TRUE]
     ELSE a :
        a \in alerts}

\* The $set of acknowledgeAlert applied to the document with the alertId.
\* A call without a reason passes `undefined`, and Mongoose drops a key whose
\* value is undefined from the update: the stored reason stays.
Acknowledged(alertId, acknowledgedBy, reason) ==
    {IF a.alertId = alertId
     THEN [a EXCEPT !.acknowledged =
              [isAcknowledged |-> TRUE,
               acknowledgedBy |-> acknowledgedBy,
               acknowledgedAt |-> now,
               reason         |-> IF reason = Undefined
                                  THEN a.acknowledged.reason ELSE reason]]
     ELSE a :
        a \in alerts}

\* `result.modifiedCount` of updateOne: 1 when a document changed.
AcknowledgedCount(alertId, acknowledgedBy, reason) ==
    Cardinality(Acknowledged(alertId, acknowledgedBy, reason) \ alerts)

\* MonitoringSystem.acknowledgeAlert(alertId, acknowledgedBy, reason): the
\* guard, then the updateOne of MongoDBAlertStore.acknowledgeAlert.
AcknowledgeAlert(alertId, acknowledgedBy, reason, ok) ==
    LET args == [alertId |-> alertId, acknowledgedBy |-> acknowledgedBy,
                 reason |-> reason]
    IN  /\ observations < MaxObservations
        /\ observations' = observations + 1
        /\ IF ~StoreEnabled
           THEN /\ event' = NotEnabled("acknowledge", args)
                /\ UNCHANGED alerts
           ELSE /\ event' = Reported("acknowledge", args,
                                     AcknowledgedCount(alertId, acknowledgedBy,
                                                       reason), ok)
                /\ alerts' = IF ok
                             THEN Acknowledged(alertId, acknowledgedBy, reason)
                             ELSE alerts
        /\ outbox' = {}
        /\ returned' = <<>>
        /\ UNCHANGED <<now, configVars, systemVars, counterVars, serviceStates, slackStates,
                       alertingStates, calls, seen, detectorVars, summaries,
                       probe>>

\* MongoDBAlertStore.updateNotificationStatus(alertId, 'slack'), called on
\* the store: one updateOne, whose rejection is the only error.
UpdateNotificationStatus(alertId, ok) ==
    /\ observations < MaxObservations
    /\ observations' = observations + 1
    /\ alerts' = IF ok THEN NotificationUpdated(alertId) ELSE alerts
    /\ event' = Reported("notification", [alertId |-> alertId], 0, ok)
    /\ outbox' = {}
    /\ returned' = <<>>
    /\ UNCHANGED <<now, configVars, systemVars, counterVars, serviceStates, slackStates,
                   alertingStates, calls, seen, detectorVars, summaries,
                   probe>>

\* ----------------------------------------------------- the reporting API
\* The operations of MonitoringSystem that read the store, and the hourly
\* summaries, over a collection that is already there.  The store may be
\* switched off in the configuration.
InitOver(collections, offsets, slack) ==
    /\ now = StartTime
    /\ lastAlertTime = 0
    /\ metrics = NoTraffic
    /\ checks = [c \in Slots |-> IdleCheck]
    /\ fires = <<>>
    /\ mongoEnabled \in BOOLEAN
    /\ slackEnabled \in slack
    /\ alertsEnabled = TRUE
    /\ slackWebhook = slackEnabled
    /\ serviceStates = [s \in Services |-> Undefined]
    /\ slackStates = [s \in Services |-> Undefined]
    /\ alertingStates = [s \in Services |-> Undefined]
    /\ alerts \in collections
    /\ calls = [c \in Slots |-> IdleCall]
    /\ seen = [t \in Trackers |-> [s \in Services |-> Undefined]]
    /\ outbox = {}
    /\ observations = 0
    /\ event = NoEvent
    /\ summaries = {}
    /\ returned = <<>>
    /\ probe = NoProbe
    /\ utcOffset \in offsets
    /\ InitSystem
    /\ requestCounter = NoValues
    /\ errorCounter = NoValues

\* The reads are the same in every time zone: the process runs in UTC.
InitApi == InitOver(SampleCollections, {0}, {FALSE})

NextApi ==
    \/ \E query \in Queries, ok \in BOOLEAN : GetAlertHistory(query, ok)
    \/ \E ok \in BOOLEAN : GetActiveAlerts(ok)
    \/ \E ok \in BOOLEAN : GetAlertStats(ok)
    \/ \E alertId \in AlertIds, ok \in BOOLEAN :
            /\ observations < MaxAcknowledgements
            /\ AcknowledgeAlert(alertId, "alice", "planned", ok)

SpecApi == InitApi /\ [][NextApi]_vars

\* --------------------------------------------------- the daily summaries
\* The hourly summaries over a collection that is already there, while
\* alerts of it are resolved.
InitReports ==
    /\ InitOver(SampleCollections, UtcOffsets, {FALSE})
    /\ mongoEnabled

NextReports ==
    \/ \E date \in ReportDates, ok \in BOOLEAN :
          \E written \in SUBSET GroupIds(date) :
            GenerateDailySummaries(date, ok, written)
    \/ \E fp \in Fingerprints, ok \in BOOLEAN : ResolveAlert(fp, ok)

SpecReports == InitReports /\ [][NextReports]_vars

\* ------------------------------------------ the store and its operators
\* The store called directly, as in SpecStore, for the alerts of one
\* service, with the operations that acknowledge an alert and record a
\* notification.
NextAdmin ==
    \/ \E t \in {"service_down", "service_recovery"},
          okResolve \in BOOLEAN, okSave \in BOOLEAN :
            StoreServiceAlert("redis", t, okResolve, okSave)
    \/ \E fp \in Fingerprints, ok \in BOOLEAN : ResolveAlert(fp, ok)
    \/ \E alertId \in AlertIds, call \in Acknowledgements, ok \in BOOLEAN :
            AcknowledgeAlert(alertId, call.acknowledgedBy, call.reason, ok)
    \/ \E alertId \in AlertIds, ok \in BOOLEAN :
            UpdateNotificationStatus(alertId, ok)

SpecAdmin == InitStore /\ [][NextAdmin]_vars

\* -------------------------------------------------------- the polling loop
\* What a probe of a monitored service meets: a reply in time, a refused
\* connection, or no reply before the timeout.
ProbeOutcomes == {"reply", "refused", "timeout"}

\* A checkHealth whose catch block throws the error on.
checkHealthRethrows(outcome) ==
    IF outcome = "reply" THEN "up" ELSE "rejected"

\* RedisMonitor.checkHealth and PostgresMonitor.checkHealth: the whole probe
\* is in a try block whose catch returns a ServiceStatus with status 'down',
\* the disconnect in the catch being caught as well; the promise never
\* rejects.  The result is the status, or "rejected".
checkHealth(outcome) ==
    IF outcome = "reply" THEN "up" ELSE "down"

\* `event` when performHealthChecks logs a rejected probe and drops it.
ProbeDropped(s) ==
    [NoEvent EXCEPT !.kind = "probe error", !.name = s, !.threw = TRUE,
                    !.error = "probe"]

\* performHealthChecks for one service: the probe settles (allSettled) and
\* results.forEach takes its result: a fulfilled one goes to
\* processServiceAlert, or to the basic alerting without the store; a
\* rejected one is logged.  The monitors modelled are those whose class is
\* part of the sources (redis, postgres); the probe of the third entry of
\* `checks` is taken to settle like theirs.
PerformHealthChecks(s, outcome) ==
    LET result == checkHealth(outcome)
    IN  /\ observations < MaxObservations
        /\ observations' = observations + 1
        /\ probe' = [name |-> s, outcome |-> outcome]
        /\ IF result = "rejected"
           THEN /\ event' = ProbeDropped(s)
                /\ outbox' = {}
                /\ UNCHANGED <<serviceStates, slackStates, alertingStates,
                               calls, seen>>
           ELSE IF mongoEnabled
           THEN \E c \in Slots :
                    Free(c) /\ StartProcessServiceAlert(c, s, result)
           ELSE StartBasicAlerting(s, result)
        /\ UNCHANGED <<now, configVars, systemVars, counterVars, alerts, detectorVars, summaries,
                       returned>>

NextPolling ==
    \/ Tick
    \/ \E s \in Services, outcome \in ProbeOutcomes :
            PerformHealthChecks(s, outcome)
    \/ \E c \in Slots, ok \in BOOLEAN : ResolveStep(c, ok)
    \/ \E c \in Slots, ok \in BOOLEAN : SaveStep(c, ok)
    \/ \E c \in Slots : NotifyStep(c)
    \/ \E c \in Slots, ok \in BOOLEAN : UpdateStep(c, ok)

SpecPolling == Init /\ [][NextPolling]_vars

\* ------------------------------------------------------------------ claims
InFlight(c) == calls[c].pc # "idle"

\* A step in which invocation c returns to its caller.
Returns(c) == InFlight(c) /\ calls'[c].pc = "idle"

\* C1: an observation that repeats the status last handed to a tracker
\* produces nothing: it starts no store call and sends no message; and no
\* invocation and no step sends more than one message per channel.
C1_RepeatedStatusSuppressed ==
    /\ \A c \in Slots : InFlight(c) =>
          ~calls[c].repeat /\ calls[c].notified <= 1
    /\ \A m \in outbox : ~m.repeat
    /\ \A m1, m2 \in outbox : m1.channel = m2.channel => m1 = m2

\* C1 witness: a second `down` for a service whose service_down alert is
\* stored has just been taken, and nothing was started or sent.
C1_Witness ==
    /\ mongoEnabled
    /\ event.kind = "observe" /\ event.repeat /\ event.status = "down"
    /\ \A c \in Slots : ~InFlight(c)
    /\ outbox = {}
    /\ Cardinality(alerts) = 1
    /\ \A a \in alerts : a.service = event.name /\ a.alertType = "service_down"

\* C2: at most one firing alert exists for any fingerprint.
C2_OneFiringPerFingerprint ==
    \A a, b \in alerts :
        (a.status = "firing" /\ b.status = "firing"
            /\ a.fingerprint = b.fingerprint) => a = b

\* C3: a successful storeServiceAlert(recovery) made right after a successful
\* storeServiceAlert(down) for the same service, on a store that held no
\* other alert of the service, leaves exactly one resolved alert of the
\* service (the service_down alert, resolvedAt the recovery time, duration
\* the seconds between the two) and exactly one service_recovery alert.
C3_RecoveryResolvesDown ==
    [][ ( /\ event.kind = "store" /\ event.alertType = "service_down"
          /\ ~event.threw
          /\ event'.kind = "store" /\ event'.alertType = "service_recovery"
          /\ ~event'.threw /\ event'.name = event.name
          /\ Cardinality({a \in alerts : a.service = event.name}) = 1 )
        => LET mine == {a \in alerts' : a.service = event.name}
               resolved == {a \in mine : a.status = "resolved"}
           IN  /\ Cardinality(resolved) = 1
               /\ \A a \in resolved :
                     /\ a.alertType = "service_down"
                     /\ a.resolvedAt = event'.time
                     /\ IsNumber(a.duration)
                     /\ a.duration = Number(event'.time - a.timestamp)
               /\ Cardinality({a \in mine :
                                 a.alertType = "service_recovery"}) = 1 ]_vars

\* C4: two firings of checkErrorThresholds are never less than alertCooldown
\* seconds apart.
C4_CooldownBetweenFirings ==
    Len(fires) = 2 => fires[2] - fires[1] >= AlertCooldown

\* C5: with Slack enabled every invocation of processServiceAlert that
\* detected a transition has made exactly one notification attempt when it
\* returns.
C5_OneNotificationPerTransition ==
    [][ \A c \in Slots :
          (slackEnabled /\ Returns(c)) => calls[c].notified = 1 ]_vars

\* C6: persistence is never undone, and an invocation of processServiceAlert
\* that returns because a store call failed has still attempted its
\* notification.
C6_FailuresIndependent ==
    [][ /\ {a.alertId : a \in alerts} \subseteq {a.alertId : a \in alerts'}
        /\ \A c \in Slots :
              (slackEnabled /\ Returns(c) /\ calls[c].pc \in {"resolve", "save"})
                 => calls[c].notified >= 1 ]_vars

\* C7: every resolved alert has resolvedAt set and a numeric duration >= 0
\* equal to resolvedAt minus timestamp, in seconds.
C7_ResolvedHasDuration ==
    \A a \in alerts :
        a.status = "resolved" =>
            /\ a.resolvedAt # NoDate
            /\ IsNumber(a.duration)
            /\ a.duration = Number(a.resolvedAt - a.timestamp)
            /\ a.resolvedAt - a.timestamp >= 0

C9_FiresExactlyAtThresholds ==
    event.kind = "check" =>
        (event.fired <=>
            /\ event.requests >= VolumeThreshold
            /\ event.errors * 100 >= ErrorThresholdPercent * event.requests
            /\ event.time - event.last >= AlertCooldown)

\* A second firing, after the cooldown, with the total and the error rate
\* exactly at their thresholds.
C9_Witness ==
    /\ event.kind = "check"
    /\ event.fired
    /\ event.last > 0
    /\ event.requests = VolumeThreshold
    /\ event.errors * 100 = ErrorThresholdPercent * event.requests

HighErrorRateAlerts(collection) ==
    {a \in collection : a.alertType = "high_error_rate"}

\* C10: every high_error_rate alert is critical exactly when its error rate
\* is at least 10 percent and warning otherwise, and a processErrorAlert
\* whose save succeeds adds exactly one such alert, for its summary.
C10_SeverityByErrorRate ==
    /\ [](\A a \in HighErrorRateAlerts(alerts) :
            /\ a.severity \in {"critical", "warning"}
            /\ a.severity = "critical" <=>
                   a.errorRate[1] >= CriticalErrorRate * a.errorRate[2])
    /\ [][\A c \in Slots :
            (checks[c].pc = "save" /\ checks'[c].pc = "send") =>
                \E a \in alerts' \ alerts :
                    /\ alerts' = alerts \cup {a}
                    /\ a.alertType = "high_error_rate"
                    /\ a.requestCount = Number(checks[c].summary.requests)
                    /\ a.errorRate[1] * checks[c].summary.requests =
                           a.errorRate[2] * checks[c].summary.errors * 100
                    /\ a.severity = "critical" <=>
                           checks[c].summary.errors * 100 >=
                               CriticalErrorRate * checks[c].summary.requests
       ]_vars

\* 12000 errors over 200000 requests: one high_error_rate alert, a warning.
C10_Witness ==
    /\ Cardinality(HighErrorRateAlerts(alerts)) = 1
    /\ \E a \in alerts :
          /\ a.alertType = "high_error_rate"
          /\ a.requestCount = Number(200000)
          /\ a.errorRate = <<6, 1>>
          /\ a.severity = "warning"
          /\ a.slackSent


\* The alerts a summary row is about: those of its day with its service,
\* alertType and severity.
SummarisedBy(row, collection) ==
    {a \in collection : /\ StartOfDay(a.timestamp) = row.date
                        /\ a.service = row.service
                        /\ a.alertType = row.alertType
                        /\ a.severity = row.severity}

\* C11: generateDailySummaries is idempotent.  There is never more than one
\* row per (date, service, alertType, severity); a completed run for a day
\* that follows a completed run for the same day, with no change to the
\* alerts, leaves every row as it was; and after a completed run each row of
\* the day counts every alert of its group once.
C11_SummariesIdempotent ==
    /\ [](\A r, q \in summaries : SummaryKey(r) = SummaryKey(q) => r = q)
    /\ [][(/\ event'.kind = "summaries"
           /\ ~event'.threw) =>
             /\ \A r \in summaries' :
                    r.date = event'.time =>
                        r.totalAlerts = Cardinality(SummarisedBy(r, alerts'))
             /\ (/\ event.kind = "summaries"
                 /\ ~event.threw
                 /\ event.time = event'.time
                 /\ alerts' = alerts) => summaries' = summaries]_vars

\* A second completed run for a day has just followed the first, over a
\* group of at least two alerts.
C11_Witness ==
    /\ event.kind = "summaries"
    /\ event.repeat
    /\ ~event.threw
    /\ \E r \in summaries : r.date = event.time /\ r.totalAlerts >= 2

\* The durations recorded in a set of alerts.
RecordedDurations(group) ==
    {a.duration[1] : a \in {b \in group : IsNumber(b.duration)}}

C13_QueryPage ==
    (event.kind = "query" /\ ~event.threw) =>
        /\ event.count = Cardinality(Matching(event.args))
        /\ \E full \in SortedResults(Matching(event.args), event.args.sortBy,
                                     event.args.sortOrder) :
               returned = Page(full, event.args.offset, event.args.limit)


\* C14: a failed store call is retried.  When a health check observes a
\* service down while no service_down alert of it is stored and no
\* processServiceAlert for it is in flight, the observation starts a save.
C14_FailedStoreRetried ==
    [][(/\ mongoEnabled
        /\ observations' = observations + 1
        /\ event'.kind = "observe"
        /\ event'.status = "down"
        /\ \A a \in alerts : ~(/\ a.service = event'.name
                               /\ a.alertType = "service_down")
        /\ \A c \in Slots : calls[c].pc = "idle" \/ calls[c].name # event'.name)
          => \E c \in Slots : /\ calls'[c].pc = "save"
                              /\ calls'[c].name = event'.name]_vars


StoreOperations == {"query", "stats", "acknowledge", "active"}

\* C16: with the store disabled, getAlertHistory, getAlertStats,
\* acknowledgeAlert and getActiveAlerts each report the 'not enabled' error,
\* return nothing of the store and change nothing.
C16_NotEnabled ==
    [][(~mongoEnabled /\ event'.kind \in StoreOperations) =>
          /\ event'.threw
          /\ event'.error = "not enabled"
          /\ event'.count = 0
          /\ returned' = <<>>
          /\ alerts' = alerts
          /\ summaries' = summaries]_vars

\* The store is disabled, holds alerts, and an acknowledgement was refused.
C16_Witness ==
    /\ ~mongoEnabled
    /\ alerts # {}
    /\ event.kind = "acknowledge"
    /\ event.error = "not enabled"
    /\ event.args.alertId \in {a.alertId : a \in alerts}


\* C17: every alert storeServiceAlert creates gets an alertId that no
\* earlier alert has, also for the same alertType and service at the same
\* clock reading.
C17_FreshAlertId ==
    [][(event'.kind = "store" /\ now' = now) =>
          ServiceAlertId(event'.alertType, event'.name, event'.time)
              \notin {a.alertId : a \in alerts}]_vars


\* C18: the acknowledgement fields are set only by acknowledgeAlert.  An
\* alert is unacknowledged when created and stays so under every other
\* operation, and after a completed acknowledgeAlert the alert carries the
\* acknowledgedBy and the reason of that call.
C18_AcknowledgedByLastCall ==
    /\ [](\A a \in alerts :
             ~a.acknowledged.isAcknowledged => a.acknowledged = Unacknowledged)
    /\ [][IF event'.kind = "acknowledge" /\ observations' = observations + 1
          THEN ~event'.threw =>
                 \A b \in alerts' :
                     b.alertId = event'.args.alertId =>
                         /\ b.acknowledged.isAcknowledged
                         /\ b.acknowledged.acknowledgedBy =
                                event'.args.acknowledgedBy
                         /\ b.acknowledged.reason = event'.args.reason
          ELSE \A b \in alerts' :
                   IF \E a \in alerts : a.alertId = b.alertId
                   THEN \A a \in alerts :
                            a.alertId = b.alertId =>
                                b.acknowledged = a.acknowledged
                   ELSE b.acknowledged = Unacknowledged]_vars

\* C19: updateNotificationStatus for an alertId that no alert has creates
\* and changes nothing and raises nothing of its own; for an alert that
\* exists it leaves the channel marked as sent, also when repeated, and it
\* never adds or removes an alert.
C19_NotificationStatusIdempotent ==
    [][(event'.kind = "notification" /\ observations' = observations + 1) =>
          /\ {b.alertId : b \in alerts'} = {a.alertId : a \in alerts}
          /\ event'.threw => event'.error = "store" /\ alerts' = alerts
          /\ event'.args.alertId \notin {a.alertId : a \in alerts} =>
                 alerts' = alerts
          /\ ~event'.threw =>
                 \A b \in alerts' :
                     b.alertId = event'.args.alertId => b.slackSent
          /\ \A a \in alerts :
                 (a.alertId = event'.args.alertId /\ a.slackSent) =>
                     alerts' = alerts]_vars

\* updateNotificationStatus has completed for an alertId that no alert has,
\* next to an alert whose channel is marked as sent.
C19_Witness ==
    /\ event.kind = "notification"
    /\ ~event.threw
    /\ event.args.alertId = MissingAlertId
    /\ \E a \in alerts : a.slackSent


\* C20: getActiveAlerts returns exactly the alerts whose status is firing,
\* each once and none that is resolved, the newest first.
C20_ActiveAlertsNewestFirst ==
    (event.kind = "active" /\ ~event.threw) =>
        /\ {returned[i] : i \in 1..Len(returned)} =
               {a \in alerts : a.status = "firing"}
        /\ Len(returned) = Cardinality({a \in alerts : a.status = "firing"})
        /\ \A i, j \in 1..Len(returned) :
               i < j => returned[i].timestamp >= returned[j].timestamp

\* getActiveAlerts has returned two firing alerts of different age, from a
\* collection that also holds a resolved alert.
C20_Witness ==
    /\ event.kind = "active"
    /\ ~event.threw
    /\ Len(returned) >= 2
    /\ returned[1].timestamp > returned[2].timestamp
    /\ \E a \in alerts : a.status = "resolved"


\* C21: an alert is marked as notified on Slack only after it was persisted
\* and its notification was dispatched: whenever an alert becomes marked,
\* it was in the store before and there is a webhook the message went to.
C21_SentOnlyAfterDispatch ==
    [][\A a \in alerts' :
          (/\ a.slackSent
           /\ \A b \in alerts : b.alertId = a.alertId => ~b.slackSent) =>
              /\ \E b \in alerts : b.alertId = a.alertId
              /\ slackWebhook]_vars


\* C22: the resolve of a recovery completes before the service_recovery
\* alert is written: when a recovery call saves its alert, none of the
\* service_down alerts of the service that were firing in the store when the
\* call started is still firing.
C22_ResolvedBeforeRecoveryWritten ==
    [][\A c \in Slots :
          (/\ calls[c].pc = "save"
           /\ calls[c].status = "up"
           /\ calls'[c].pc # "save"
           /\ alerts' # alerts) =>
              \A a \in alerts' :
                  a.alertId \in calls[c].before => a.status # "firing"]_vars

\* A service_recovery alert is stored next to the service_down alert of its
\* service, which is resolved.
C22_Witness ==
    \E a, b \in alerts :
        /\ a.alertType = "service_recovery"
        /\ b.alertType = "service_down"
        /\ b.service = a.service
        /\ b.timestamp <= a.timestamp
        /\ b.status = "resolved"


\* C23: the first observation of a service is recorded and is a transition
\* only when it is down: a first down starts the save of a service_down
\* alert, a first up starts nothing and sends nothing, and a recovery is
\* started and its alert stored only when the state recorded before was
\* down.
C23_FirstObservation ==
    [][/\ (observations' = observations + 1 /\ event'.kind = "observe") =>
            IF mongoEnabled
            THEN /\ serviceStates'[event'.name] = event'.status
                 /\ (/\ seen["enhanced"][event'.name] = Undefined
                     /\ event'.status = "down") =>
                        \E c \in Slots : /\ calls[c].pc = "idle"
                                         /\ calls'[c].pc = "save"
                                         /\ calls'[c].name = event'.name
                                         /\ calls'[c].status = "down"
                 /\ (/\ seen["enhanced"][event'.name] = Undefined
                     /\ event'.status = "up") =>
                        calls' = calls /\ outbox' = {} /\ alerts' = alerts
                 /\ (\E c \in Slots : /\ calls[c].pc = "idle"
                                      /\ calls'[c].pc = "resolve") =>
                        /\ seen["enhanced"][event'.name] = "down"
                        /\ event'.status = "up"
            ELSE (/\ seen["slack"][event'.name] = Undefined
                  /\ seen["alerting"][event'.name] = Undefined
                  /\ event'.status = "up") => outbox' = {}
       /\ \A a \in alerts' :
              (/\ a.alertType = "service_recovery"
               /\ \A b \in alerts : b.alertId # a.alertId) =>
                  \E c \in Slots : /\ calls[c].pc = "save"
                                   /\ calls[c].name = a.service
                                   /\ calls[c].prev = "down"]_vars

\* The first observation of a service was up, and nothing was started for
\* it; the first observation of the other service was down and its alert is
\* stored.
C23_Witness ==
    /\ mongoEnabled
    /\ observations = 2
    /\ event.kind = "observe"
    /\ event.status = "up"
    /\ ~event.repeat
    /\ \A a \in alerts : a.service # event.name
    /\ \A c \in Slots : calls[c].pc = "idle"
    /\ \E a \in alerts : a.alertType = "service_down"


\* C24: a checkErrorThresholds that fires sets lastAlertTime to the time it
\* read, before it returns and whatever happens to the alert afterwards; one
\* that does not fire (cooldown, volume or rate below the threshold) leaves
\* lastAlertTime as it is, and so do storeErrorAlert, the notification and
\* their failures.  A call that ends with the checks in flight and the
\* counters as they were, the counters not being zero, is a return on
\* cooldown (reset() zeroes the counters).
C24_LastAlertTimeOnFire ==
    [][/\ \A c \in Slots :
              (checks[c].pc = "summary" /\ checks'[c].pc # "summary") =>
                  /\ event'.kind = "check"
                  /\ IF event'.fired
                     THEN lastAlertTime' = checks[c].now
                     ELSE lastAlertTime' = lastAlertTime
       /\ \A c \in Slots :
              (/\ checks[c].pc \in {"save", "send", "update"}
               /\ checks'[c] # checks[c]) => lastAlertTime' = lastAlertTime
       /\ (/\ observations' = observations + 1
           /\ checks' = checks
           /\ metrics' = metrics
           /\ metrics # NoTraffic) => /\ event'.kind = "check"
                                      /\ ~event'.fired
                                      /\ lastAlertTime' = lastAlertTime]_vars

\* A check has fired, its alert could not be stored, and lastAlertTime is
\* the time of the check.
C24_Witness ==
    /\ mongoEnabled
    /\ event.kind = "check"
    /\ event.fired
    /\ lastAlertTime = event.time
    /\ alerts = {}
    /\ \A c \in Slots : checks[c].pc = "idle"


\* C25: storeErrorAlert only adds one firing high_error_rate alert and
\* changes no alert that is in the store; no step of the detection pipeline
\* other than updateNotificationStatus changes a stored alert, and none
\* changes its status, resolvedAt, duration or acknowledgement.
C25_StoreErrorAlertOnlyAdds ==
    [][/\ \A c \in Slots :
              (checks[c].pc = "save" /\ checks'[c].pc # "save") =>
                  /\ alerts \subseteq alerts'
                  /\ Cardinality(alerts' \ alerts) <= 1
                  /\ checks'[c].pc = "send" =>
                         Cardinality(alerts' \ alerts) = 1
                  /\ \A a \in alerts' \ alerts :
                         /\ a.alertType = "high_error_rate"
                         /\ a.status = "firing"
       /\ \A a \in alerts :
              \E b \in alerts' : /\ b.alertId = a.alertId
                                 /\ b.status = a.status
                                 /\ b.resolvedAt = a.resolvedAt
                                 /\ b.duration = a.duration
                                 /\ b.acknowledged = a.acknowledged]_vars

\* Two high_error_rate alerts are stored, both firing.
C25_Witness ==
    \E a, b \in alerts :
        /\ a # b
        /\ a.alertType = "high_error_rate"
        /\ b.alertType = "high_error_rate"
        /\ a.status = "firing"
        /\ b.status = "firing"


\* A status flip in arrival order: a down after anything but a down, or an
\* up after a down.
Flip(previous, st) ==
    \/ st = "down" /\ previous # "down"
    \/ st = "up" /\ previous = "down"

\* C26: under every interleaving of processServiceAlert invocations, each
\* observation is compared with the observation of the service that arrived
\* immediately before it: it starts a store call exactly when it is a flip
\* of that observation, whatever calls are in flight.
C26_TransitionsAreFlips ==
    [][(/\ mongoEnabled
        /\ observations' = observations + 1
        /\ event'.kind = "observe") =>
          /\ serviceStates[event'.name] = seen["enhanced"][event'.name]
          /\ (\E c \in Slots : calls[c].pc = "idle" /\ calls'[c].pc # "idle")
                 <=> Flip(seen["enhanced"][event'.name], event'.status)]_vars

\* Two invocations for the same service are in flight, a down and the up
\* that followed it.
C26_Witness ==
    \E c, d \in Slots :
        /\ calls[c].pc = "save"
        /\ calls[d].pc = "resolve"
        /\ calls[c].name = calls[d].name
        /\ calls[c].status = "down"
        /\ calls[d].status = "up"


\* C27: the fingerprint depends on service and alertType (and threshold and
\* route) only, not on the time of creation: two service alerts have the
\* same fingerprint exactly when they have the same service and alertType.
\* A recovery that is stored resolves every firing service_down alert of its
\* service, and a recovery call changes no alert of another service, of
\* another type, or that is not firing.
C27_FingerprintAndRecoveryFrame ==
    /\ [](\A a, b \in alerts :
             a.fingerprint = b.fingerprint
                 <=> (a.service = b.service /\ a.alertType = b.alertType))
    /\ [][(/\ event'.kind = "store"
           /\ event'.alertType = "service_recovery"
           /\ now' = now) =>
             /\ \A a \in alerts :
                    \/ a \in alerts'
                    \/ /\ a.service = event'.name
                       /\ a.alertType = "service_down"
                       /\ a.status = "firing"
             /\ ~event'.threw =>
                    \A a \in alerts' :
                        (a.service = event'.name
                            /\ a.alertType = "service_down") =>
                                a.status = "resolved"]_vars

\* A recovery of one service is stored and its service_down alert resolved,
\* while the service_down alert of the other service is still firing.
C27_Witness ==
    \E a, b, c \in alerts :
        /\ a.alertType = "service_recovery"
        /\ b.alertType = "service_down"
        /\ b.service = a.service
        /\ b.status = "resolved"
        /\ c.alertType = "service_down"
        /\ c.service # a.service
        /\ c.status = "firing"



\* --------------------------------------------------- starting and stopping
\* main registers the signal handlers and then awaits server.start(), which
\* awaits MonitoringSystem.start(); a handler awaits server.stop(), that is
\* MonitoringSystem.stop(), and then calls process.exit(0).

\* `event` when the callback of a timer starts.
TimerFired(id) == [NoEvent EXCEPT !.kind = "timer", !.alertType = id]

\* start() after the connection attempt: the Slack test message when Slack
\* is enabled, else the initial health check.
AfterConnect == IF slackEnabled THEN "slack" ELSE "check"

\* start() up to its first await.
StartMonitoring ==
    /\ ~exited
    /\ starting = "new"
    /\ starting' = IF mongoEnabled THEN "connect" ELSE AfterConnect
    /\ UNCHANGED <<now, configVars, counterVars, apiVars, alerts, event, outbox, trackerVars,
                   detectorVars, timers, isConnected, stopping, exited>>

\* `await this.mongoStore.connect()` settles: connect() sets isConnected
\* when mongoose.connect resolved; a rejection is logged by start().
StoreConnected(ok) ==
    /\ ~exited
    /\ starting = "connect"
    /\ isConnected' = (isConnected \/ ok)
    /\ starting' = AfterConnect
    /\ UNCHANGED <<now, configVars, counterVars, apiVars, alerts, event, outbox, trackerVars,
                   detectorVars, timers, stopping, exited>>

\* `await this.slackNotifier.sendTestMessage()` settles, either way.
SlackTested ==
    /\ ~exited
    /\ starting = "slack"
    /\ starting' = "check"
    /\ UNCHANGED <<now, configVars, counterVars, apiVars, alerts, event, outbox, trackerVars,
                   detectorVars, timers, isConnected, stopping, exited>>

\* The timers start() sets: the health checks always, the error checks when
\* config.errorAlerts.enabled, the summaries when the store is enabled.
TimersOfStart(errorAlerts) ==
    {"intervalId"}
        \cup (IF errorAlerts THEN {"errorCheckIntervalId"} ELSE {})
        \cup (IF mongoEnabled THEN {"summaryIntervalId"} ELSE {})

\* The initial `await this.performHealthChecks()` settles and start() sets
\* its timers and returns.
TimersSet(errorAlerts) ==
    /\ ~exited
    /\ starting = "check"
    /\ timers' = timers \cup TimersOfStart(errorAlerts)
    /\ starting' = "started"
    /\ UNCHANGED <<now, configVars, counterVars, apiVars, alerts, event, outbox, trackerVars,
                   detectorVars, isConnected, stopping, exited>>

\* stop() awaits mongoose.disconnect() when the store exists and is
\* connected; else nothing it awaits takes a turn of the event loop.
StopAwaits == mongoEnabled /\ isConnected

\* A signal arrives while start() is awaiting or after it returned: the
\* handler calls stop(), which clears the timers that are set and awaits
\* the store's disconnect().  When there is nothing to wait for stop()
\* returns and the handler exits the process in the same turn.
SignalReceived(sig) ==
    /\ ~exited
    /\ starting # "new"
    /\ stopping[sig] = "idle"
    /\ timers' = {}
    /\ stopping' = [stopping EXCEPT ![sig] =
                        IF StopAwaits THEN "disconnect" ELSE "done"]
    /\ exited' = ~StopAwaits
    /\ UNCHANGED <<now, configVars, counterVars, apiVars, alerts, event, outbox, trackerVars,
                   detectorVars, isConnected, starting>>

\* `await mongoose.disconnect()` settles.  Resolved: disconnect() clears
\* isConnected, stop() returns and the handler calls process.exit(0).
\* Rejected: stop() rejects, and the handler's rejection ends the process.
StoreDisconnected(sig, ok) ==
    /\ ~exited
    /\ stopping[sig] = "disconnect"
    /\ isConnected' = (isConnected /\ ~ok)
    /\ stopping' = [stopping EXCEPT ![sig] = IF ok THEN "done" ELSE "failed"]
    /\ exited' = TRUE
    /\ UNCHANGED <<now, configVars, counterVars, apiVars, alerts, event, outbox, trackerVars,
                   detectorVars, timers, starting>>

\* A timer that is set fires and its callback starts.
TimerFires(id) ==
    /\ ~exited
    /\ id \in timers
    /\ event' = TimerFired(id)
    /\ UNCHANGED <<now, configVars, systemVars, counterVars, apiVars, alerts, outbox,
                   trackerVars, detectorVars>>

NextLifecycle ==
    \/ StartMonitoring
    \/ \E ok \in BOOLEAN : StoreConnected(ok)
    \/ SlackTested
    \/ \E errorAlerts \in BOOLEAN : TimersSet(errorAlerts)
    \/ \E sig \in Signals : SignalReceived(sig)
    \/ \E sig \in Signals, ok \in BOOLEAN : StoreDisconnected(sig, ok)
    \/ \E id \in TimerIds : TimerFires(id)

SpecLifecycle == Init /\ [][NextLifecycle]_vars

LeftFiring ==
    StoredAlert("redis", "service_down", StartTime - TickSeconds, "firing",
                NoDate, NoDuration)

InitRestart ==
    /\ InitOver({{LeftFiring}}, {0}, {TRUE})
    /\ mongoEnabled

SpecRestart == InitRestart /\ [][Next]_vars

\* C29: the last-known states are not persisted.  A process starts with no
\* state recorded for any service, so the first down observation of a
\* service is a transition even when an alert of an earlier run is still
\* firing for it; and when its save succeeds the collection holds a new
\* firing service_down alert of the service beside every alert it held.
C29_RestartStoresAgain ==
    /\ [](observations = 0 =>
            \A s \in Services : serviceStates[s] = Undefined)
    /\ [][/\ (/\ observations' = observations + 1
              /\ event'.kind = "observe"
              /\ event'.status = "down"
              /\ seen["enhanced"][event'.name] = Undefined) =>
                \E c \in Slots : /\ calls[c].pc = "idle"
                                 /\ calls'[c].pc = "save"
                                 /\ calls'[c].name = event'.name
                                 /\ calls'[c].prev = Undefined
          /\ \A c \in Slots :
                (/\ calls[c].pc = "save"
                 /\ calls[c].prev = Undefined
                 /\ calls'[c].pc = "notify") =>
                    /\ alerts \subseteq alerts'
                    /\ \E a \in alerts' \ alerts :
                          /\ alerts' = alerts \cup {a}
                          /\ a.service = calls[c].name
                          /\ a.alertType = "service_down"
                          /\ a.status = "firing"
                          /\ a.timestamp = calls[c].lastCheck]_vars

\* The restarted process has stored a second firing service_down alert for
\* redis beside the one the earlier run left firing.
C29_Witness ==
    /\ LeftFiring \in alerts
    /\ \E a \in alerts :
          /\ a # LeftFiring
          /\ a.service = "redis"
          /\ a.alertType = "service_down"
          /\ a.status = "firing"
          /\ a.fingerprint = LeftFiring.fingerprint


\* The alerts of a group whose timestamp lies in the UTC day of `date`.
InUtcDayOf(date, id, collection) ==
    {a \in collection : /\ StartOfUtcDay(a.timestamp) = StartOfUtcDay(date)
                        /\ GroupId(a) = id}

\* C30: in whatever time zone the process runs, a completed
\* generateDailySummaries(date) leaves, for every group of alerts whose
\* timestamp lies in the UTC day of date, a row keyed by the start of that
\* UTC day that counts exactly those alerts.
C30_SummariesOfUtcDay ==
    [][(/\ event'.kind = "summaries"
        /\ ~event'.threw) =>
          LET date == event'.args[1]
          IN  \A a \in alerts' :
                StartOfUtcDay(a.timestamp) = StartOfUtcDay(date) =>
                    \E r \in summaries' :
                        /\ r.date = StartOfUtcDay(date)
                        /\ r.service = a.service
                        /\ r.alertType = a.alertType
                        /\ r.severity = a.severity
                        /\ r.totalAlerts =
                              Cardinality(InUtcDayOf(date, GroupId(a),
                                                     alerts'))]_vars


\* ------------------------------------- the store's operators as time passes
\* The operations of the store on the alerts of one service with the clock
\* running between them, so that a later call reads a later `new Date()`.
NextAdminLater ==
    \/ Tick
    \/ \E t \in {"service_down", "service_recovery"},
          okResolve \in BOOLEAN, okSave \in BOOLEAN :
            StoreServiceAlert("redis", t, okResolve, okSave)
    \/ \E ok \in BOOLEAN :
            ResolveAlert(generateFingerprint("redis", "service_down",
                                             EmptyMetadata), ok)
    \/ \E alertId \in AlertIds, ok \in BOOLEAN :
            /\ observations < MaxAcknowledgements
            /\ AcknowledgeAlert(alertId, "alice", "planned", ok)
    \/ \E alertId \in AlertIds, ok \in BOOLEAN :
            /\ observations < MaxAcknowledgements
            /\ UpdateNotificationStatus(alertId, ok)

SpecAdminLater == InitStore /\ [][NextAdminLater]_vars

\* C31: resolved is absorbing.  Under every operation of the store an alert
\* that is stored stays stored under its alertId and as one document, and an
\* alert that is resolved stays resolved with the resolvedAt and the duration
\* it has.
C31_ResolvedAbsorbing ==
    [][\A a \in alerts :
          /\ \E b \in alerts' : b.alertId = a.alertId
          /\ \A b \in alerts' :
                (b.alertId = a.alertId /\ a.status = "resolved") =>
                    /\ b.status = "resolved"
                    /\ b.resolvedAt = a.resolvedAt
                    /\ b.duration = a.duration]_vars

\* resolveAlertsByFingerprint has just run, at a later time, over an alert
\* that was resolved before, and has modified nothing.
C31_Witness ==
    /\ event.kind = "resolve"
    /\ ~event.threw
    /\ event.count = 0
    /\ \E a \in alerts :
          /\ a.fingerprint = event.fingerprint
          /\ a.status = "resolved"
          /\ a.resolvedAt < event.time


\* C32: whenever the tracker of EnhancedAlertingService holds up for a
\* service and no processServiceAlert for that service is in flight, the
\* store holds no firing service_down alert of that service.
C32_UpMeansNoneFiring ==
    \A s \in Services :
        (/\ mongoEnabled
         /\ serviceStates[s] = "up"
         /\ \A c \in Slots : calls[c].pc = "idle" \/ calls[c].name # s) =>
            \A a \in alerts :
                ~(/\ a.service = s
                  /\ a.alertType = "service_down"
                  /\ a.status = "firing")


\* A tracker's entry as its change detection reads it: a service never
\* seen is treated as one that is up, since neither is a recovery and both
\* make a down a transition.
ReadAs(state) == IF state = Undefined THEN "up" ELSE state

\* C33: with Slack enabled and the store in use, the state map of
\* SlackNotifier agrees with the one of EnhancedAlertingService for every
\* service that has no invocation in flight, and a transition that
\* processServiceAlert forwards to SlackNotifier.processAlert is sent.
C33_NotifierAgrees ==
    /\ [](\A s \in Services :
            (/\ mongoEnabled
             /\ slackEnabled
             /\ \A c \in Slots : calls[c].pc = "idle" \/ calls[c].name # s) =>
                ReadAs(slackStates[s]) = ReadAs(serviceStates[s]))
    /\ [][\A c \in Slots :
            (/\ mongoEnabled
             /\ slackEnabled
             /\ calls[c].pc = "notify"
             /\ calls'[c].pc = "update") =>
                calls'[c].notified = calls[c].notified + 1]_vars


\* C34: with the store disabled a firing of checkErrorThresholds stores no
\* alert and sends nothing, checkErrorRates ends there, and lastAlertTime
\* takes the time of the check; and two firings are then never less than
\* alertCooldown seconds apart.
C34_FiringWithoutStore ==
    /\ [][\A c \in Slots :
            (/\ ~mongoEnabled
             /\ checks[c].pc = "summary"
             /\ checks'[c].pc # "summary"
             /\ event'.fired) =>
                /\ alerts' = alerts
                /\ outbox' = {}
                /\ checks'[c] = IdleCheck
                /\ lastAlertTime' = checks[c].now]_vars
    /\ [](~mongoEnabled =>
            (Len(fires) = 2 => fires[2] - fires[1] >= AlertCooldown))


\* ------------------------------------------------- the request counters
\* RequestMetricsService as the metrics middleware, POST /simulate-errors
\* and POST /reset-metrics drive it.  The increments of a call are in its
\* synchronous part, and the two `await counter.get()` of getErrorSummary
\* resolve without a turn of the event loop between them: every call is one
\* step.

\* `reduce((sum, v) => sum + v.value, 0)` over the values under `labels`:
\* the sum of a function over a set of its arguments.
RECURSIVE SumValues(_, _)
SumValues(counter, labels) ==
    IF labels = {} THEN 0
    ELSE LET l == CHOOSE x \in labels : TRUE
         IN  counter[l] + SumValues(counter, labels \ {l})

\* recordError without the increment of the request counter.
recordErrorOnly(service) ==
    /\ observations < MaxObservations
    /\ observations' = observations + 1
    /\ errorCounter' =
          [errorCounter EXCEPT ![[service |-> service, status_code |-> "500"]]
                                  = @ + 1]
    /\ metrics' = [metrics EXCEPT !.errors = @ + 1]
    /\ returned' = <<>>
    /\ outbox' = {}
    /\ UNCHANGED <<now, configVars, systemVars, alerts, event, serviceStates,
                   slackStates, alertingStates, calls, seen, slackWebhook,
                   lastAlertTime, checks, fires, summaries,
                   probe, requestCounter>>

\* recordRequest(method, route, statusCode, duration, service).
recordRequest(service) ==
    /\ observations < MaxObservations
    /\ observations' = observations + 1
    /\ requestCounter' =
          [requestCounter EXCEPT ![[service |-> service, status_code |-> "200"]]
                                    = @ + 1]
    /\ metrics' = [metrics EXCEPT !.requests = @ + 1]
    /\ returned' = <<>>
    /\ outbox' = {}
    /\ UNCHANGED <<now, configVars, systemVars, alerts, event, serviceStates,
                   slackStates, alertingStates, calls, seen, slackWebhook,
                   lastAlertTime, checks, fires, summaries,
                   probe, errorCounter>>

\* recordError(method, route, statusCode, errorType, service): both counters.
recordError(service) ==
    /\ observations < MaxObservations
    /\ observations' = observations + 1
    /\ requestCounter' =
          [requestCounter EXCEPT ![[service |-> service, status_code |-> "500"]]
                                    = @ + 1]
    /\ errorCounter' =
          [errorCounter EXCEPT ![[service |-> service, status_code |-> "500"]]
                                  = @ + 1]
    /\ metrics' = [requests |-> metrics.requests + 1,
                   errors |-> metrics.errors + 1]
    /\ returned' = <<>>
    /\ outbox' = {}
    /\ UNCHANGED <<now, configVars, systemVars, alerts, event, serviceStates,
                   slackStates, alertingStates, calls, seen, slackWebhook,
                   lastAlertTime, checks, fires, summaries,
                   probe>>

\* The ErrorSummary getErrorSummary builds: the totals over all values, and
\* one entry for each service the request counter has a value for.
ErrorSummary ==
    LET labelsOf(s) == {l \in Labels : l.service = s}
        requestsOf(s) == SumValues(requestCounter, labelsOf(s))
        errorsOf(s) == SumValues(errorCounter, labelsOf(s))
        totalRequests == SumValues(requestCounter, Labels)
        totalErrors == SumValues(errorCounter, Labels)
    IN  [ totalRequests |-> totalRequests,
          totalErrors   |-> totalErrors,
          errorRate     |-> ErrorRate(totalRequests, totalErrors),
          services      |->
              [s \in {l.service : l \in {x \in Labels : requestCounter[x] > 0}}
                  |-> [ requests  |-> requestsOf(s),
                        errors    |-> errorsOf(s),
                        errorRate |-> ErrorRate(requestsOf(s), errorsOf(s)) ]] ]

\* getErrorSummary(); `returned` takes the summary.
getErrorSummary ==
    /\ returned' = <<ErrorSummary>>
    /\ outbox' = {}
    /\ UNCHANGED <<now, configVars, systemVars, counterVars, alerts, event,
                   trackerVars, detectorVars, summaries, probe>>

NextMetrics ==
    \/ \E service \in {l.service : l \in Labels} : recordRequest(service)
    \/ \E service \in {l.service : l \in Labels} : recordError(service)
    \/ ResetMetrics
    \/ getErrorSummary

SpecMetrics == Init /\ [][NextMetrics]_vars

\* C35: every error summary has totalErrors <= totalRequests, globally and
\* for each service, an error rate from 0 to 100 percent that is 0 without
\* requests, and totals that are the sums of the counts of the services.
C35_SummaryConsistent ==
    returned # <<>> =>
        LET summary == returned[1]
            names == DOMAIN summary.services
        IN  /\ summary.totalErrors <= summary.totalRequests
            /\ RateAtLeast(summary.errorRate, 0)
            /\ ~RateAbove(summary.errorRate, 100)
            /\ summary.totalRequests = 0 => summary.errorRate = <<0, 1>>
            /\ \A s \in names :
                  /\ summary.services[s].errors <= summary.services[s].requests
                  /\ RateAtLeast(summary.services[s].errorRate, 0)
                  /\ ~RateAbove(summary.services[s].errorRate, 100)
                  /\ summary.services[s].requests = 0 =>
                        summary.services[s].errorRate = <<0, 1>>
            /\ summary.totalRequests =
                  SumValues([s \in names |-> summary.services[s].requests],
                            names)
            /\ summary.totalErrors =
                  SumValues([s \in names |-> summary.services[s].errors],
                            names)

\* A summary over two services, one of them with errors and with requests
\* that were no errors.
C35_Witness ==
    /\ returned # <<>>
    /\ Cardinality(DOMAIN returned[1].services) = 2
    /\ returned[1].totalErrors = 1
    /\ returned[1].totalRequests = 3
    /\ \E s \in DOMAIN returned[1].services :
          /\ returned[1].services[s].errors = 1
          /\ returned[1].services[s].requests = 2


\* ------------------------------------------------------ getAlertStats
\* getAlertStats sends its aggregations to the database under one
\* Promise.all: each is a read of its own, answered from the collection as
\* it is when the database runs it, and alerts may be stored in between.
\* `returned` holds the answers received so far and the aggregations still
\* pending; the trends are left out.

\* The first aggregation: `$group: { _id: null, ... }`, no document when
\* nothing matches.
TotalStats(collection) ==
    LET count(field, value) ==
            Cardinality({a \in collection :
                            (IF field = "severity" THEN a.severity
                             ELSE a.status) = value})
    IN  IF collection = {} THEN <<>>
        ELSE << [ totalAlerts      |-> Cardinality(collection),
                  criticalAlerts   |-> count("severity", "critical"),
                  warningAlerts    |-> count("severity", "warning"),
                  infoAlerts       |-> count("severity", "info"),
                  resolvedAlerts   |-> count("status", "resolved"),
                  unresolvedAlerts |-> count("status", "firing") ] >>

\* The service and type breakdowns: `$group: { _id: '$service', count }` or
\* `_id: '$alertType'`, reduced to an object keyed by _id.
GroupCounts(collection, byService) ==
    LET key(a) == IF byService THEN a.service ELSE a.alertType
    IN  [k \in {key(a) : a \in collection} |->
            Cardinality({a \in collection : key(a) = k})]

\* getAlertStats up to `await Promise.all([...])`.
StartGetAlertStats ==
    /\ mongoEnabled
    /\ observations < MaxChecks
    /\ observations' = observations + 1
    /\ IF returned = <<>> THEN TRUE ELSE returned[1].pending = {}
    /\ returned' = << [ pending      |-> {"total", "service", "type"},
                        totalStats   |-> <<>>,
                        serviceStats |-> <<>>,
                        typeStats    |-> <<>> ] >>
    /\ outbox' = {}
    /\ UNCHANGED <<now, configVars, systemVars, counterVars, alerts, event,
                   serviceStates, slackStates, alertingStates, calls, seen,
                   detectorVars, summaries, probe>>

\* The database answers one of the pending aggregations.
AggregationSettles(name) ==
    /\ returned # <<>>
    /\ name \in returned[1].pending
    /\ returned' =
          << [returned[1] EXCEPT
                !.pending = @ \ {name},
                !.totalStats = IF name = "total" THEN TotalStats(alerts) ELSE @,
                !.serviceStats = IF name = "service"
                                 THEN GroupCounts(alerts, TRUE) ELSE @,
                !.typeStats = IF name = "type"
                              THEN GroupCounts(alerts, FALSE) ELSE @] >>
    /\ outbox' = {}
    /\ UNCHANGED <<now, configVars, systemVars, counterVars, alerts, event,
                   trackerVars, detectorVars, summaries, probe>>

\* The AlertStats getAlertStats returns once every aggregation has
\* answered: `stats = totalStats[0] || {}`, each count `|| 0`.
AlertStats(answers) ==
    LET none == [ totalAlerts |-> 0, criticalAlerts |-> 0,
                  warningAlerts |-> 0, infoAlerts |-> 0,
                  resolvedAlerts |-> 0, unresolvedAlerts |-> 0 ]
        stats == IF answers.totalStats = <<>> THEN none
                 ELSE answers.totalStats[1]
    IN  [ totalAlerts      |-> stats.totalAlerts,
          criticalAlerts   |-> stats.criticalAlerts,
          warningAlerts    |-> stats.warningAlerts,
          infoAlerts       |-> stats.infoAlerts,
          resolvedAlerts   |-> stats.resolvedAlerts,
          unresolvedAlerts |-> stats.unresolvedAlerts,
          alertsByService  |-> answers.serviceStats,
          alertsByType     |-> answers.typeStats ]

NextStats ==
    \/ StartGetAlertStats
    \/ \E name \in {"total", "service", "type"} : AggregationSettles(name)
    \/ \E t \in {"service_down", "service_recovery"},
          okResolve \in BOOLEAN, okSave \in BOOLEAN :
            StoreServiceAlert("redis", t, okResolve, okSave)

SpecStats == InitStore /\ [][NextStats]_vars

\* C36: every row generateDailySummaries has written has totalAlerts =
\* resolvedAlerts + unresolvedAlerts, and every result of getAlertStats has
\* totalAlerts = resolvedAlerts + unresolvedAlerts = criticalAlerts +
\* warningAlerts + infoAlerts = the sum of alertsByService = the sum of
\* alertsByType.
C36_CountsAddUp ==
    /\ \A r \in summaries :
          r.totalAlerts = r.resolvedAlerts + r.unresolvedAlerts
    /\ (returned # <<>> /\ returned[1].pending = {}) =>
          LET stats == AlertStats(returned[1])
          IN  /\ stats.totalAlerts =
                    stats.resolvedAlerts + stats.unresolvedAlerts
              /\ stats.totalAlerts = stats.criticalAlerts
                    + stats.warningAlerts + stats.infoAlerts
              /\ stats.totalAlerts =
                    SumValues(stats.alertsByService,
                              DOMAIN stats.alertsByService)
              /\ stats.totalAlerts =
                    SumValues(stats.alertsByType, DOMAIN stats.alertsByType)


\* ------------------------------------------------- the alerts as created
\* Both writers of new alerts over one collection: storeServiceAlert for a
\* service, and the detector with processErrorAlert behind it, for traffic
\* on either side of the 10% severity threshold.
NextCreate ==
    \/ \E t \in {"service_down", "service_recovery"},
          okResolve \in BOOLEAN, okSave \in BOOLEAN :
            StoreServiceAlert("redis", t, okResolve, okSave)
    \/ \E m \in {x \in Samples : x.requests = 200000} : Traffic(m)
    \/ \E c \in Slots : StartCheckErrorRates(c)
    \/ \E c \in Slots : SummaryStep(c)
    \/ \E c \in Slots, ok \in BOOLEAN : ErrorSaveStep(c, ok)
    \/ \E c \in Slots, ok \in BOOLEAN : ErrorSendStep(c, ok)
    \/ \E c \in Slots, ok \in BOOLEAN : ErrorUpdateStep(c, ok)

SpecCreate == InitStore /\ [][NextCreate]_vars

C38_AcknowledgeFrame ==
    [][event'.kind = "acknowledge" =>
        LET alertId == event'.args.alertId
        IN  /\ \A a \in alerts : a.alertId # alertId => a \in alerts'
            /\ \A b \in alerts' : b.alertId # alertId => b \in alerts
            /\ \A a \in alerts :
                  a.alertId = alertId =>
                      \E b \in alerts' :
                          [b EXCEPT !.acknowledged = a.acknowledged] = a
            /\ Cardinality(alerts') = Cardinality(alerts)
            /\ (\A a \in alerts : a.alertId # alertId) =>
                  /\ alerts' = alerts
                  /\ event'.count = 0]_vars

\* An acknowledgement has just changed a resolved and notified alert that
\* is stored next to an alert nobody acknowledged.
C38_Witness ==
    /\ event.kind = "acknowledge"
    /\ event.count = 1
    /\ \E a \in alerts :
          /\ a.alertId = event.args.alertId
          /\ a.acknowledged.isAcknowledged
          /\ a.status = "resolved"
          /\ a.slackSent
    /\ \E a \in alerts :
          /\ a.alertId # event.args.alertId
          /\ ~a.acknowledged.isAcknowledged

=============================================================================
